---- MODULE Spec2Model ----
(***************************************************************************)
(* A model of the arc_rw_lock crate of LeoPloutno/rapid: the lock word of  *)
(* inner/lock.rs, the poison flag of inner.rs, the guards of lock.rs and   *)
(* the reference-count header of arc.rs with the partitioning iterator of  *)
(* slice.rs and slice/iter_mut.rs.                                         *)
(*                                                                         *)
(* Spec          the lock word, the poison flag and the guards, one step   *)
(*               per atomic access of each thread.                         *)
(* SpecFair      Spec with weak fairness of the steps of each thread.      *)
(* SpecRead      Spec with read() among the calls.                         *)
(* SpecArc       the reference-count header and the handles of one         *)
(*               allocation.                                               *)
(* SpecHeader    the four functions on the header, on headers near 0 and   *)
(*               near the maximum of each half.                            *)
(* SpecScenario  the end-to-end scenario: a slice split into element       *)
(*               handles, one writer thread for each, then read_whole().   *)
(* SpecSimulate  the step protocol of the simulate_* functions of lib.rs:   *)
(*               one barrier, one RwLock and one adder, with weak fairness *)
(*               of each thread.                                           *)
(* SpecLayout    InnerArc::from_lock on the blocks of small payloads.      *)
(***************************************************************************)
EXTENDS Integers, Sequences, FiniteSets, TLC

\* ------------------------------------------------------------------ bounds

\* Number of threads that use the lock.
NumThreads == 2

\* Guards one thread holds at a time (over all the handles it owns).
MaxHold == 1

\* Distance from COUNTER_MAX of the holder count that guards leaked with
\* mem::forget have left behind in the start states that have leaked guards.
LeakSlack == 1

\* Longest slice payload.
MaxLen == 3

Threads == 1 .. NumThreads

\* Number of worker threads (simulate_leading, simulate_inner, simulate_trailing)
\* next to the one simulate_output thread.
SimWorkers == 2

\* The largest value of the argument `steps`.
SimSteps == 2

\* ------------------------------------------------------------- the state

VARIABLES
    word,       \* Lock.0
    poison,     \* PoisonLock.poison
    pc,         \* pc[t]: where thread t is
    loaded,     \* loaded[t]: the local `loaded` of the Lock function t runs
    unw,        \* unw[t]: panicking() of t during a guard drop
    ret,        \* ret[t]: what the last acquire of t returned
    wheld,      \* wheld[t]: write guards t holds
    rheld,      \* rheld[t]: read-whole guards t holds
    opp,        \* opp[t]: the word was in the opposing mode at some instant of t's try call
    relUnw,     \* a write guard dropped while unwinding has released its slot, and no clear since
    leaked,     \* guards forgotten (mem::forget) before the threads start
    halt,       \* "run", "abort" (process::abort) or "ub" (unreachable_unchecked reached)
    counter,    \* InnerArc.counter
    handles,    \* the live handles of the allocation
    remainder,  \* the subfield of the iterator: <<offset of its first element, len>>
    slice_len,  \* the length of the slice payload
    needs_drop, \* needs_drop::<InnerArc<U>>() of the payload type
    converted,  \* how the slice wrapper was consumed: "no", "iter" or "iter_mut"
    pending,    \* drops that saw the header empty and have not deallocated yet
    dtors,      \* runs of drop_in_place
    deallocs,   \* runs of deallocate
    data,       \* the elements of the slice payload
    yields,     \* history: the offsets of the elements the iterator has yielded, in order
    steps,      \* the argument `steps` of the simulate_* functions
    site,       \* site[t]: where thread t is in its simulate_* function
    step,       \* step[t]: the next value of the range 0..steps of t's for loop
    waited,     \* waited[t]: barrier waits t has returned from in its current iteration
    local_gen,  \* local_gen[t]: the generation t saw when it arrived at the barrier
    barrier,    \* Barrier: [count, generation_id]
    shared_value, \* RwLock<T>: [readers, value]
    guards,     \* guards[t]: the read guards of shared_value bound to locals of t's iteration
    adder,      \* messages sent to the adder and not yet summed
    payload,    \* the Layout of the payload T of an allocated InnerArc<T>: [size, align]
    allocation, \* the allocated block: [ptr, layout]
    from_lock_ret \* what InnerArc::from_lock returned: <<ptr, layout>>, <<>> before the call

lockVars == <<word, poison, pc, loaded, unw, ret, wheld, rheld, opp, relUnw, leaked, halt>>
arcVars == <<counter, handles, remainder, slice_len, needs_drop, converted, pending, dtors, deallocs,
             data, yields>>
simVars == <<steps, site, step, waited, local_gen, barrier, shared_value, guards, adder>>
layoutVars == <<payload, allocation, from_lock_ret>>
vars == <<lockVars, arcVars, simVars, layoutVars>>

\* ---------------------------------------------------------- the lock word

\* The AtomicU32 of Lock is kept as its two bit fields: bit 0 (the write
\* flag) and bits 1..31 (the holder count), since the word itself exceeds
\* the integers TLC computes with.
COUNTER_MAX == 2147483647

EMPTY == [flag |-> 0, cnt |-> 0]

\* Mutation of WRITE_FIRST: the flag without the count of the first writer.
WRITE_FIRST_no_count == [flag |-> 1, cnt |-> 0]

\* WRITE_FLAG | COUNTER_ONE
WRITE_FIRST == [flag |-> 1, cnt |-> 1]

\* COUNTER_ONE
READ_FIRST == [flag |-> 0, cnt |-> 1]

\* loaded >> COUNTER_MASK.trailing_zeros()
Counter(w) == w.cnt

\* loaded & WRITE_FLAG != 0
HasWriteFlag(w) == w.flag # 0

\* loaded.unchecked_add(COUNTER_ONE): the code calls it below COUNTER_MAX
\* only; at COUNTER_MAX the 32-bit sum wraps, which clears the count bits and
\* keeps bit 0.
AddCounterOne(w) == [w EXCEPT !.cnt = IF @ = COUNTER_MAX THEN 0 ELSE @ + 1]

\* Mutation of AtCounterMax: the overflow test never fires.
AtCounterMax_never(l) == FALSE

\* loaded >> COUNTER_MASK.trailing_zeros() == COUNTER_MAX
AtCounterMax(l) == Counter(l) = COUNTER_MAX

\* Mutation of SubCounterOne: the write flag is set as well.
SubCounterOne_sets_flag(w) == [flag |-> 1, cnt |-> w.cnt - 1]

\* Mutation of SubCounterOne: the count is left as it was.
SubCounterOne_keeps(w) == w

\* loaded.unchecked_sub(COUNTER_ONE), used above a count of 1 only
SubCounterOne(w) == [w EXCEPT !.cnt = @ - 1]

\* Mutation of write_branch: a set poison flag sends the caller to the wait.
write_branch_waits_on_poison(l) ==
    IF poison THEN "wait"
    ELSE IF l = EMPTY THEN "first"
    ELSE IF HasWriteFlag(l) THEN "more"
    ELSE "wait"

\* Mutation of write_branch: only an EMPTY word is taken, a word held by
\* writers sends the caller to the wait.
write_branch_waits_on_writers(l) ==
    IF l = EMPTY THEN "first" ELSE "wait"

\* Which arm of the loop of Lock::write a loaded value takes.
write_branch(l) ==
    IF l = EMPTY THEN "first"
    ELSE IF HasWriteFlag(l) THEN "more"
    ELSE "wait"

\* Mutation of try_write_branch: the test of the write flag is dropped, so a
\* word held by whole-readers is taken for one held by writers.
try_write_branch_ignores_readers(l) ==
    IF l = EMPTY THEN "first" ELSE "more"

\* Mutation of try_write_branch: every word that is not EMPTY makes the call
\* give up, a word held by writers included.
try_write_branch_fails_on_writers(l) ==
    IF l = EMPTY THEN "first" ELSE "fail"

\* Which arm of the loop of Lock::try_write a loaded value takes.
try_write_branch(l) ==
    IF l = EMPTY THEN "first"
    ELSE IF HasWriteFlag(l) THEN "more"
    ELSE "fail"

\* Mutation of read_whole_branch: the test of the write flag is dropped, so a
\* word held by writers is taken for one held by whole-readers.
read_whole_branch_joins_writers(l) ==
    IF l = EMPTY THEN "first" ELSE "more"

\* Mutation of read_whole_branch: only an EMPTY word is taken, a word held
\* by whole-readers sends the caller to the wait.
read_whole_branch_waits_on_readers(l) ==
    IF l = EMPTY THEN "first" ELSE "wait"

\* Which arm of the loop of Lock::read_whole a loaded value takes.
read_whole_branch(l) ==
    IF l = EMPTY THEN "first"
    ELSE IF ~HasWriteFlag(l) THEN "more"
    ELSE "wait"

\* Which arm of the loop of Lock::try_read_whole a loaded value takes.
try_read_whole_branch(l) ==
    IF l = EMPTY THEN "first"
    ELSE IF ~HasWriteFlag(l) THEN "more"
    ELSE "fail"

\* Mutation of drop_branch: a count of 1 is lowered like any other.
drop_branch_never_last(l) ==
    IF Counter(l) = 0 THEN "unreachable" ELSE "more"

\* Which arm of the loop of Lock::drop_writer_unchecked a loaded value takes.
drop_branch(l) ==
    IF Counter(l) = 0 THEN "unreachable"
    ELSE IF Counter(l) = 1 THEN "last"
    ELSE "more"

\* Mutation of drop_whole_reader_unchecked: wake_all after every release.
drop_whole_reader_unchecked_always_wakes(w) ==
    [word |-> [w EXCEPT !.cnt = IF @ = 0 THEN COUNTER_MAX ELSE @ - 1], wake |-> TRUE]

\* Lock::drop_whole_reader_unchecked: the word fetch_sub(COUNTER_ONE) leaves
\* (the subtraction wraps within the 31 bits of the count and leaves the
\* flag bit alone) and whether wake_all follows.
drop_whole_reader_unchecked(w) ==
    [word |-> [w EXCEPT !.cnt = IF @ = 0 THEN COUNTER_MAX ELSE @ - 1], wake |-> w = READ_FIRST]

\* The result MappedRwLock::read_whole builds from is_poisoned().
read_whole_result(poisoned) == IF poisoned THEN "rw:Ok" ELSE "rw:Poisoned"

\* Mutation of try_read_whole_result: the two arms are swapped.
try_read_whole_result_inverted(poisoned) == IF poisoned THEN "trw:Ok" ELSE "trw:Poisoned"

\* The result MappedRwLock::try_read_whole builds from is_poisoned().
try_read_whole_result(poisoned) == IF poisoned THEN "trw:Poisoned" ELSE "trw:Ok"

\* Mutation of poison_after_drop: the call of poison() is left out.
poison_after_drop_never(poisoned, panicking) == poisoned

\* Mutation of poison_after_drop: the flag is stored from panicking() on
\* every drop, which clears it on a drop that is not unwinding.
poison_after_drop_stores_panicking(poisoned, panicking) == panicking

\* The poison flag after the tail of MappedRwLockWriteGuard::drop.
poison_after_drop(poisoned, panicking) == IF panicking THEN TRUE ELSE poisoned

\* ---------------------------------------------------------------- state

RECURSIVE SumTo(_, _)
SumTo(f, n) == IF n = 0 THEN 0 ELSE f[n] + SumTo(f, n - 1)

\* Live write guards and live read-whole guards: a guard lives from the
\* exchange that takes its slot to the exchange that releases it.
LiveWriters == leaked.w + SumTo(wheld, Len(wheld))
LiveReaders == leaked.r + SumTo(rheld, Len(rheld))

IsWriting(w) == w.cnt > 0 /\ w.flag = 1
IsReading(w) == w.cnt > 0 /\ w.flag = 0

Holds(t) == wheld[t] + rheld[t]

\* The history variable opp after a step that leaves the word at w2.
OppAfter(w2) ==
    [u \in DOMAIN pc |->
        IF pc[u] = "tw_loop" THEN opp[u] \/ IsReading(w2)
        ELSE IF pc[u] = "trw_loop" THEN opp[u] \/ IsWriting(w2)
        ELSE opp[u]]

\* Mutation of WakeAll: the threads parked in write are left asleep.
WakeAll_skips_writers(p) ==
    [u \in DOMAIN p |-> IF p[u] = "rw_parked" THEN "rw_reload" ELSE p[u]]

\* Mutation of WakeAll: the threads parked in read_whole are left asleep.
WakeAll_skips_readers(p) ==
    [u \in DOMAIN p |-> IF p[u] = "w_parked" THEN "w_reload" ELSE p[u]]

\* atomic_wait::wake_all: every thread parked on the word returns from wait.
WakeAll(p) ==
    [u \in DOMAIN p |->
        IF p[u] = "w_parked" THEN "w_reload"
        ELSE IF p[u] = "rw_parked" THEN "rw_reload"
        ELSE p[u]]

LeakStarts ==
    { [w |-> 0, r |-> 0],
      [w |-> COUNTER_MAX - LeakSlack, r |-> 0],
      [w |-> 0, r |-> COUNTER_MAX - LeakSlack] }

LockInit ==
    /\ leaked \in LeakStarts
    /\ word = IF leaked.w > 0 THEN [flag |-> 1, cnt |-> leaked.w]
              ELSE IF leaked.r > 0 THEN [flag |-> 0, cnt |-> leaked.r]
              ELSE EMPTY
    /\ poison = FALSE
    /\ pc = [t \in Threads |-> "idle"]
    /\ loaded = [t \in Threads |-> EMPTY]
    /\ unw = [t \in Threads |-> FALSE]
    /\ ret = [t \in Threads |-> "none"]
    /\ wheld = [t \in Threads |-> 0]
    /\ rheld = [t \in Threads |-> 0]
    /\ opp = [t \in Threads |-> FALSE]
    /\ relUnw = FALSE
    /\ halt = "run"

ArcIdle ==
    /\ counter = <<0, 0, 0, 0>>
    /\ handles = {}
    /\ remainder = <<0, 0>>
    /\ slice_len = 0
    /\ needs_drop = FALSE
    /\ converted = "no"
    /\ pending = 0
    /\ dtors = 0
    /\ deallocs = 0
    /\ data = <<>>
    /\ yields = <<>>

\* No block is looked at.
LayoutIdle ==
    /\ payload = [size |-> 0, align |-> 1]
    /\ allocation = [ptr |-> 0, layout |-> [size |-> 0, align |-> 1]]
    /\ from_lock_ret = <<>>

\* No simulation runs.
SimIdle ==
    /\ steps = 0
    /\ site = <<>>
    /\ step = <<>>
    /\ waited = <<>>
    /\ local_gen = <<>>
    /\ barrier = [count |-> 0, generation_id |-> 0]
    /\ shared_value = [readers |-> 0, value |-> "default"]
    /\ guards = <<>>
    /\ adder = 0
    /\ LayoutIdle

Init == LockInit /\ ArcIdle /\ SimIdle

\* ------------------------------------------------- MappedRwLock::write

\* The call, up to the first load of Lock::write.
write_call(t) ==
    /\ halt = "run" /\ pc[t] = "idle" /\ Holds(t) < MaxHold
    /\ pc' = [pc EXCEPT ![t] = "w_loop"]
    /\ loaded' = [loaded EXCEPT ![t] = word]
    /\ ret' = [ret EXCEPT ![t] = "none"]
    /\ opp' = [opp EXCEPT ![t] = FALSE]
    /\ UNCHANGED <<word, poison, unw, wheld, rheld, leaked, relUnw, halt, arcVars, simVars, layoutVars>>

\* One turn of the loop of Lock::write: a compare_exchange_weak or the wait.
\* A spurious failure of the weak exchange reloads the value the thread
\* already has and is a stuttering step.
write_loop(t) ==
    /\ halt = "run" /\ pc[t] = "w_loop"
    /\ LET b == write_branch(loaded[t]) IN
       IF b = "wait" THEN
            \* atomic_wait::wait returns at once when the word has changed
            /\ pc' = [pc EXCEPT ![t] = IF word = loaded[t] THEN "w_parked" ELSE "w_reload"]
            /\ UNCHANGED <<word, loaded, ret, wheld, opp, halt>>
       ELSE IF b = "more" /\ AtCounterMax(loaded[t]) THEN
            /\ halt' = "abort"
            /\ UNCHANGED <<word, pc, loaded, ret, wheld, opp>>
       ELSE IF word = loaded[t] THEN
            /\ word' = IF b = "first" THEN WRITE_FIRST ELSE AddCounterOne(loaded[t])
            /\ pc' = [pc EXCEPT ![t] = "idle"]
            /\ loaded' = [loaded EXCEPT ![t] = EMPTY]
            /\ ret' = [ret EXCEPT ![t] = "w:Guard"]
            /\ wheld' = [wheld EXCEPT ![t] = @ + 1]
            /\ opp' = OppAfter(word')
            /\ UNCHANGED halt
       ELSE
            /\ loaded' = [loaded EXCEPT ![t] = word]
            /\ UNCHANGED <<word, pc, ret, wheld, opp, halt>>
    /\ UNCHANGED <<poison, unw, rheld, leaked, relUnw, arcVars, simVars, layoutVars>>

\* Mutation of write_reload: the return from the wait is taken to mean that
\* the readers have gone, and the slot is taken without a look at the word.
write_reload_takes_slot(t) ==
    /\ halt = "run" /\ pc[t] = "w_reload"
    /\ word' = IF word = EMPTY THEN WRITE_FIRST ELSE AddCounterOne(word)
    /\ pc' = [pc EXCEPT ![t] = "idle"]
    /\ loaded' = [loaded EXCEPT ![t] = EMPTY]
    /\ ret' = [ret EXCEPT ![t] = "w:Guard"]
    /\ wheld' = [wheld EXCEPT ![t] = @ + 1]
    /\ opp' = OppAfter(word')
    /\ UNCHANGED <<poison, unw, rheld, leaked, relUnw, halt, arcVars, simVars, layoutVars>>

\* The load after atomic_wait::wait has returned.
write_reload(t) ==
    /\ halt = "run" /\ pc[t] = "w_reload"
    /\ pc' = [pc EXCEPT ![t] = "w_loop"]
    /\ loaded' = [loaded EXCEPT ![t] = word]
    /\ UNCHANGED <<word, poison, unw, ret, wheld, rheld, opp, leaked, relUnw, halt, arcVars, simVars, layoutVars>>

\* --------------------------------------------- MappedRwLock::try_write

try_write_call(t) ==
    /\ halt = "run" /\ pc[t] = "idle" /\ Holds(t) < MaxHold
    /\ pc' = [pc EXCEPT ![t] = "tw_loop"]
    /\ loaded' = [loaded EXCEPT ![t] = word]
    /\ ret' = [ret EXCEPT ![t] = "none"]
    /\ opp' = [opp EXCEPT ![t] = IsReading(word)]
    /\ UNCHANGED <<word, poison, unw, wheld, rheld, leaked, relUnw, halt, arcVars, simVars, layoutVars>>

\* Mutation of try_write_loop: a word held by whole-readers sends the caller
\* to atomic_wait::wait, as in Lock::write.
try_write_loop_parks(t) ==
    /\ halt = "run" /\ pc[t] = "tw_loop"
    /\ LET b == try_write_branch(loaded[t]) IN
       IF b = "fail" THEN
            /\ pc' = [pc EXCEPT ![t] = IF word = loaded[t] THEN "w_parked" ELSE "w_reload"]
            /\ UNCHANGED <<word, loaded, ret, wheld, opp, halt>>
       ELSE IF b = "more" /\ AtCounterMax(loaded[t]) THEN
            /\ halt' = "abort"
            /\ UNCHANGED <<word, pc, loaded, ret, wheld, opp>>
       ELSE IF word = loaded[t] THEN
            /\ word' = IF b = "first" THEN WRITE_FIRST ELSE AddCounterOne(loaded[t])
            /\ pc' = [pc EXCEPT ![t] = "idle"]
            /\ loaded' = [loaded EXCEPT ![t] = EMPTY]
            /\ ret' = [ret EXCEPT ![t] = "tw:Guard"]
            /\ wheld' = [wheld EXCEPT ![t] = @ + 1]
            /\ opp' = OppAfter(word')
            /\ UNCHANGED halt
       ELSE
            /\ loaded' = [loaded EXCEPT ![t] = word]
            /\ opp' = [opp EXCEPT ![t] = @ \/ IsReading(word)]
            /\ UNCHANGED <<word, pc, ret, wheld, halt>>
    /\ UNCHANGED <<poison, unw, rheld, leaked, relUnw, arcVars, simVars, layoutVars>>

\* One turn of the loop of Lock::try_write.
try_write_loop(t) ==
    /\ halt = "run" /\ pc[t] = "tw_loop"
    /\ LET b == try_write_branch(loaded[t]) IN
       IF b = "fail" THEN
            /\ pc' = [pc EXCEPT ![t] = "idle"]
            /\ loaded' = [loaded EXCEPT ![t] = EMPTY]
            /\ ret' = [ret EXCEPT ![t] = "tw:WouldBlock"]
            /\ UNCHANGED <<word, wheld, opp, halt>>
       ELSE IF b = "more" /\ AtCounterMax(loaded[t]) THEN
            /\ halt' = "abort"
            /\ UNCHANGED <<word, pc, loaded, ret, wheld, opp>>
       ELSE IF word = loaded[t] THEN
            /\ word' = IF b = "first" THEN WRITE_FIRST ELSE AddCounterOne(loaded[t])
            /\ pc' = [pc EXCEPT ![t] = "idle"]
            /\ loaded' = [loaded EXCEPT ![t] = EMPTY]
            /\ ret' = [ret EXCEPT ![t] = "tw:Guard"]
            /\ wheld' = [wheld EXCEPT ![t] = @ + 1]
            /\ opp' = OppAfter(word')
            /\ UNCHANGED halt
       ELSE
            /\ loaded' = [loaded EXCEPT ![t] = word]
            /\ opp' = [opp EXCEPT ![t] = @ \/ IsReading(word)]
            /\ UNCHANGED <<word, pc, ret, wheld, halt>>
    /\ UNCHANGED <<poison, unw, rheld, leaked, relUnw, arcVars, simVars, layoutVars>>

\* ------------------------------------------- MappedRwLock::read_whole

read_whole_call(t) ==
    /\ halt = "run" /\ pc[t] = "idle" /\ Holds(t) < MaxHold
    /\ pc' = [pc EXCEPT ![t] = "rw_loop"]
    /\ loaded' = [loaded EXCEPT ![t] = word]
    /\ ret' = [ret EXCEPT ![t] = "none"]
    /\ opp' = [opp EXCEPT ![t] = FALSE]
    /\ UNCHANGED <<word, poison, unw, wheld, rheld, leaked, relUnw, halt, arcVars, simVars, layoutVars>>

\* One turn of the loop of Lock::read_whole.
read_whole_loop(t) ==
    /\ halt = "run" /\ pc[t] = "rw_loop"
    /\ LET b == read_whole_branch(loaded[t]) IN
       IF b = "wait" THEN
            /\ pc' = [pc EXCEPT ![t] = IF word = loaded[t] THEN "rw_parked" ELSE "rw_reload"]
            /\ UNCHANGED <<word, loaded, rheld, opp, halt>>
       ELSE IF b = "more" /\ AtCounterMax(loaded[t]) THEN
            /\ halt' = "abort"
            /\ UNCHANGED <<word, pc, loaded, rheld, opp>>
       ELSE IF word = loaded[t] THEN
            /\ word' = IF b = "first" THEN READ_FIRST ELSE AddCounterOne(loaded[t])
            /\ pc' = [pc EXCEPT ![t] = "rw_check"]
            /\ loaded' = [loaded EXCEPT ![t] = EMPTY]
            /\ rheld' = [rheld EXCEPT ![t] = @ + 1]
            /\ opp' = OppAfter(word')
            /\ UNCHANGED halt
       ELSE
            /\ loaded' = [loaded EXCEPT ![t] = word]
            /\ UNCHANGED <<word, pc, rheld, opp, halt>>
    /\ UNCHANGED <<poison, unw, ret, wheld, leaked, relUnw, arcVars, simVars, layoutVars>>

read_whole_reload(t) ==
    /\ halt = "run" /\ pc[t] = "rw_reload"
    /\ pc' = [pc EXCEPT ![t] = "rw_loop"]
    /\ loaded' = [loaded EXCEPT ![t] = word]
    /\ UNCHANGED <<word, poison, unw, ret, wheld, rheld, opp, leaked, relUnw, halt, arcVars, simVars, layoutVars>>

\* The guard is built and is_poisoned() decides the variant returned.
read_whole_check(t) ==
    /\ halt = "run" /\ pc[t] = "rw_check"
    /\ pc' = [pc EXCEPT ![t] = "idle"]
    /\ ret' = [ret EXCEPT ![t] = read_whole_result(poison)]
    /\ UNCHANGED <<word, poison, loaded, unw, wheld, rheld, opp, leaked, relUnw, halt, arcVars, simVars, layoutVars>>

\* --------------------------------------- MappedRwLock::try_read_whole

try_read_whole_call(t) ==
    /\ halt = "run" /\ pc[t] = "idle" /\ Holds(t) < MaxHold
    /\ pc' = [pc EXCEPT ![t] = "trw_loop"]
    /\ loaded' = [loaded EXCEPT ![t] = word]
    /\ ret' = [ret EXCEPT ![t] = "none"]
    /\ opp' = [opp EXCEPT ![t] = IsWriting(word)]
    /\ UNCHANGED <<word, poison, unw, wheld, rheld, leaked, relUnw, halt, arcVars, simVars, layoutVars>>

\* Mutation of try_read_whole_loop: the attempt that gives up has entered
\* itself in the count of the word first.
try_read_whole_loop_registers(t) ==
    /\ halt = "run" /\ pc[t] = "trw_loop"
    /\ LET b == try_read_whole_branch(loaded[t]) IN
       IF b = "fail" THEN
            /\ word' = AddCounterOne(word)
            /\ pc' = [pc EXCEPT ![t] = "idle"]
            /\ loaded' = [loaded EXCEPT ![t] = EMPTY]
            /\ ret' = [ret EXCEPT ![t] = "trw:WouldBlock"]
            /\ UNCHANGED <<rheld, opp, halt>>
       ELSE IF b = "more" /\ AtCounterMax(loaded[t]) THEN
            /\ halt' = "abort"
            /\ UNCHANGED <<word, pc, loaded, ret, rheld, opp>>
       ELSE IF word = loaded[t] THEN
            /\ word' = IF b = "first" THEN READ_FIRST ELSE AddCounterOne(loaded[t])
            /\ pc' = [pc EXCEPT ![t] = "trw_check"]
            /\ loaded' = [loaded EXCEPT ![t] = EMPTY]
            /\ rheld' = [rheld EXCEPT ![t] = @ + 1]
            /\ opp' = OppAfter(word')
            /\ UNCHANGED <<ret, halt>>
       ELSE
            /\ loaded' = [loaded EXCEPT ![t] = word]
            /\ opp' = [opp EXCEPT ![t] = @ \/ IsWriting(word)]
            /\ UNCHANGED <<word, pc, ret, rheld, halt>>
    /\ UNCHANGED <<poison, unw, wheld, leaked, relUnw, arcVars, simVars, layoutVars>>

try_read_whole_loop(t) ==
    /\ halt = "run" /\ pc[t] = "trw_loop"
    /\ LET b == try_read_whole_branch(loaded[t]) IN
       IF b = "fail" THEN
            /\ pc' = [pc EXCEPT ![t] = "idle"]
            /\ loaded' = [loaded EXCEPT ![t] = EMPTY]
            /\ ret' = [ret EXCEPT ![t] = "trw:WouldBlock"]
            /\ UNCHANGED <<word, rheld, opp, halt>>
       ELSE IF b = "more" /\ AtCounterMax(loaded[t]) THEN
            /\ halt' = "abort"
            /\ UNCHANGED <<word, pc, loaded, ret, rheld, opp>>
       ELSE IF word = loaded[t] THEN
            /\ word' = IF b = "first" THEN READ_FIRST ELSE AddCounterOne(loaded[t])
            /\ pc' = [pc EXCEPT ![t] = "trw_check"]
            /\ loaded' = [loaded EXCEPT ![t] = EMPTY]
            /\ rheld' = [rheld EXCEPT ![t] = @ + 1]
            /\ opp' = OppAfter(word')
            /\ UNCHANGED <<ret, halt>>
       ELSE
            /\ loaded' = [loaded EXCEPT ![t] = word]
            /\ opp' = [opp EXCEPT ![t] = @ \/ IsWriting(word)]
            /\ UNCHANGED <<word, pc, ret, rheld, halt>>
    /\ UNCHANGED <<poison, unw, wheld, leaked, relUnw, arcVars, simVars, layoutVars>>

try_read_whole_check(t) ==
    /\ halt = "run" /\ pc[t] = "trw_check"
    /\ pc' = [pc EXCEPT ![t] = "idle"]
    /\ ret' = [ret EXCEPT ![t] = try_read_whole_result(poison)]
    /\ UNCHANGED <<word, poison, loaded, unw, wheld, rheld, opp, leaked, relUnw, halt, arcVars, simVars, layoutVars>>

\* ------------------------------------------------------- guard drops

\* Drop of a MappedRwLockWriteGuard begins: the first load of
\* Lock::drop_writer_unchecked. panicking is what thread::panicking() will
\* return at the end of this drop.
write_guard_drop_call(t, panicking) ==
    /\ halt = "run" /\ pc[t] = "idle" /\ wheld[t] > 0
    /\ pc' = [pc EXCEPT ![t] = "dw_loop"]
    /\ loaded' = [loaded EXCEPT ![t] = word]
    /\ unw' = [unw EXCEPT ![t] = panicking]
    /\ ret' = [ret EXCEPT ![t] = "none"]
    /\ opp' = [opp EXCEPT ![t] = FALSE]
    /\ UNCHANGED <<word, poison, wheld, rheld, leaked, relUnw, halt, arcVars, simVars, layoutVars>>

\* Drop of a MappedRwLockReadWholeGuard begins: it runs
\* Lock::drop_writer_unchecked as well and never looks at panicking().
read_guard_drop_call(t, panicking) ==
    /\ halt = "run" /\ pc[t] = "idle" /\ rheld[t] > 0
    /\ pc' = [pc EXCEPT ![t] = "dr_loop"]
    /\ loaded' = [loaded EXCEPT ![t] = word]
    /\ unw' = [unw EXCEPT ![t] = panicking]
    /\ ret' = [ret EXCEPT ![t] = "none"]
    /\ opp' = [opp EXCEPT ![t] = FALSE]
    /\ UNCHANGED <<word, poison, wheld, rheld, leaked, relUnw, halt, arcVars, simVars, layoutVars>>

\* The pc of t after Lock::drop_writer_unchecked has returned: the write
\* guard goes on to its panicking() test, the read-whole guard is done.
AfterRelease(t) ==
    IF pc[t] \in {"dw_loop", "dw_wake"} THEN "dw_tail" ELSE "idle"

\* One turn of the loop of Lock::drop_writer_unchecked, run for either guard.
drop_writer_unchecked(t) ==
    /\ halt = "run" /\ pc[t] \in {"dw_loop", "dr_loop"}
    /\ LET b == drop_branch(loaded[t]) IN
       IF b = "unreachable" THEN
            \* hint::unreachable_unchecked(): anything may follow
            /\ halt' = "ub"
            /\ UNCHANGED <<word, pc, loaded, unw, wheld, rheld, opp, relUnw>>
       ELSE IF word = loaded[t] THEN
            /\ word' = IF b = "last" THEN EMPTY ELSE SubCounterOne(loaded[t])
            /\ pc' = [pc EXCEPT ![t] =
                        IF b = "last"
                        THEN (IF pc[t] = "dw_loop" THEN "dw_wake" ELSE "dr_wake")
                        ELSE AfterRelease(t)]
            /\ loaded' = [loaded EXCEPT ![t] = EMPTY]
            /\ unw' = [unw EXCEPT ![t] = IF pc'[t] = "idle" THEN FALSE ELSE @]
            /\ wheld' = [wheld EXCEPT ![t] = IF pc[t] = "dw_loop" THEN @ - 1 ELSE @]
            /\ rheld' = [rheld EXCEPT ![t] = IF pc[t] = "dr_loop" THEN @ - 1 ELSE @]
            /\ opp' = OppAfter(word')
            /\ relUnw' = (relUnw \/ (pc[t] = "dw_loop" /\ unw[t]))
            /\ UNCHANGED halt
       ELSE
            /\ loaded' = [loaded EXCEPT ![t] = word]
            /\ UNCHANGED <<word, pc, unw, wheld, rheld, opp, relUnw, halt>>
    /\ UNCHANGED <<poison, ret, leaked, arcVars, simVars, layoutVars>>

\* atomic_wait::wake_all after the exchange that emptied the word.
drop_wake(t) ==
    /\ halt = "run" /\ pc[t] \in {"dw_wake", "dr_wake"}
    /\ pc' = [WakeAll(pc) EXCEPT ![t] = AfterRelease(t)]
    /\ unw' = [unw EXCEPT ![t] = IF pc'[t] = "idle" THEN FALSE ELSE @]
    /\ UNCHANGED <<word, poison, loaded, ret, wheld, rheld, opp, leaked, relUnw, halt, arcVars, simVars, layoutVars>>

\* The tail of MappedRwLockWriteGuard::drop: if panicking() { poison() }.
write_guard_drop_tail(t) ==
    /\ halt = "run" /\ pc[t] = "dw_tail"
    /\ poison' = poison_after_drop(poison, unw[t])
    /\ pc' = [pc EXCEPT ![t] = "idle"]
    /\ unw' = [unw EXCEPT ![t] = FALSE]
    /\ UNCHANGED <<word, loaded, ret, wheld, rheld, opp, leaked, relUnw, halt, arcVars, simVars, layoutVars>>

\* PoisonLock::remove_poison, the explicit clear.
remove_poison(t) ==
    /\ halt = "run" /\ pc[t] = "idle"
    /\ poison' = FALSE
    /\ relUnw' = FALSE
    /\ UNCHANGED <<word, pc, loaded, unw, ret, wheld, rheld, opp, leaked, halt, arcVars, simVars, layoutVars>>

\* atomic_wait::wait may return without a wake.
spurious_wake(t) ==
    /\ halt = "run" /\ pc[t] \in {"w_parked", "rw_parked"}
    /\ pc' = [pc EXCEPT ![t] = IF @ = "w_parked" THEN "w_reload" ELSE "rw_reload"]
    /\ UNCHANGED <<word, poison, loaded, unw, ret, wheld, rheld, opp, leaked, relUnw, halt, arcVars, simVars, layoutVars>>

Next ==
    \E t \in Threads :
        \/ write_call(t) \/ write_loop(t) \/ write_reload(t)
        \/ try_write_call(t) \/ try_write_loop(t)
        \/ read_whole_call(t) \/ read_whole_loop(t) \/ read_whole_reload(t)
        \/ read_whole_check(t)
        \/ try_read_whole_call(t) \/ try_read_whole_loop(t) \/ try_read_whole_check(t)
        \/ \E p \in BOOLEAN : write_guard_drop_call(t, p)
        \/ \E p \in BOOLEAN : read_guard_drop_call(t, p)
        \/ drop_writer_unchecked(t) \/ drop_wake(t) \/ write_guard_drop_tail(t)
        \/ remove_poison(t) \/ spurious_wake(t)

Spec == Init /\ [][Next]_vars

\* ---------------------------------------------------- MappedRwLock::read

\* Mutation of read: the borrow is handed out only while no write guard is
\* live.
read_waits_for_writers(t) ==
    /\ halt = "run" /\ pc[t] = "idle" /\ ~IsWriting(word)
    /\ ret' = [ret EXCEPT ![t] = "r:Ref"]
    /\ UNCHANGED <<word, poison, pc, loaded, unw, wheld, rheld, opp, leaked, relUnw, halt, arcVars, simVars, layoutVars>>

\* MappedRwLock::read: the borrow of the subfield, without a look at the lock.
read(t) ==
    /\ halt = "run" /\ pc[t] = "idle"
    /\ ret' = [ret EXCEPT ![t] = "r:Ref"]
    /\ UNCHANGED <<word, poison, pc, loaded, unw, wheld, rheld, opp, leaked, relUnw, halt, arcVars, simVars, layoutVars>>

\* The lock with read() among the calls of its threads.
NextRead == Next \/ \E t \in Threads : read(t)

SpecRead == Init /\ [][NextRead]_vars

\* The steps a thread takes once it is inside a call or a drop. Whether and
\* when a thread starts a call, drops a guard or clears the poison is its
\* program's choice, and a wait need never return without a wake.
Progress(t) ==
    \/ write_loop(t) \/ write_reload(t)
    \/ try_write_loop(t)
    \/ read_whole_loop(t) \/ read_whole_reload(t) \/ read_whole_check(t)
    \/ try_read_whole_loop(t) \/ try_read_whole_check(t)
    \/ drop_writer_unchecked(t) \/ drop_wake(t) \/ write_guard_drop_tail(t)

\* Every thread that can take a step of its call eventually takes one.
Fairness == \A t \in Threads : WF_vars(Progress(t))

SpecFair == Init /\ [][Next]_vars /\ Fairness

\* ------------------------------------------ properties of the lock (Spec)

\* C1: a live write guard and a live read-whole guard never exist at the
\* same time; while the holder count is non-zero, either the write flag is
\* set and no read-whole guard is live, or it is clear and no write guard is
\* live.
C1_NoModeMixing ==
    /\ ~(LiveWriters > 0 /\ LiveReaders > 0)
    /\ Counter(word) > 0 =>
          \/ HasWriteFlag(word) /\ LiveWriters > 0 /\ LiveReaders = 0
          \/ ~HasWriteFlag(word) /\ LiveReaders > 0 /\ LiveWriters = 0

\* A thread is parked because guards of the other mode are live.
C1_Witness ==
    \E t \in Threads :
        \/ pc[t] = "rw_parked" /\ LiveWriters > 0
        \/ pc[t] = "w_parked" /\ LiveReaders > 0

\* The steps in which a try call takes its slot or gives up.
TryWriteAcquires(t) == try_write_loop(t) /\ ret'[t] = "tw:Guard"
TryWriteFails(t) == try_write_loop(t) /\ ret'[t] = "tw:WouldBlock"
TryReadAcquires(t) == try_read_whole_loop(t) /\ pc'[t] = "trw_check"
TryReadFails(t) == try_read_whole_loop(t) /\ ret'[t] = "trw:WouldBlock"

\* C2: a try_write takes a slot only at an instant at which no read-whole
\* guard is live, and returns WouldBlock only if the word was held by
\* whole-readers at some instant of the call (so with every read-whole guard
\* dropped before the call it returns a guard); a try_write that returns has
\* one of these two results. The same for try_read_whole against write
\* guards.
C2_TryExcludes ==
    [][\A t \in Threads :
          /\ TryWriteAcquires(t) => LiveReaders = 0 /\ wheld'[t] = wheld[t] + 1
          /\ TryWriteFails(t) => opp[t] /\ wheld' = wheld /\ word' = word
          /\ (try_write_loop(t) /\ pc'[t] = "idle") =>
                ret'[t] \in {"tw:Guard", "tw:WouldBlock"}
          /\ TryReadAcquires(t) => LiveWriters = 0 /\ rheld'[t] = rheld[t] + 1
          /\ TryReadFails(t) => opp[t] /\ rheld' = rheld /\ word' = word
          /\ (try_read_whole_loop(t) /\ pc'[t] = "idle") => ret'[t] = "trw:WouldBlock"
      ]_vars

\* Thread b was refused by try_write while thread a holds a read-whole guard.
C2_Witness ==
    \E a, b \in Threads :
        a # b /\ rheld[a] > 0 /\ pc[a] = "idle" /\ ret[b] = "tw:WouldBlock"

\* C5: read_whole holds a read slot when it tests the poison flag, and
\* returns the poisoned variant exactly when the flag is set at that test,
\* the plain guard exactly when it is clear.
C5_ReadWholeReportsPoison ==
    [][\A t \in Threads :
          read_whole_check(t) =>
              /\ rheld[t] > 0 /\ IsReading(word)
              /\ ret'[t] = "rw:Poisoned" <=> poison
              /\ ret'[t] = "rw:Ok" <=> ~poison
      ]_vars

\* C6: try_read_whole ends in one of three ways: WouldBlock with no slot
\* taken, after it loaded a word held by writers; Poisoned with a read slot
\* held, when the flag is set at its test; the plain guard with a read slot
\* held, when the flag is clear.
C6_TryReadWholeOutcomes ==
    [][\A t \in Threads :
          /\ TryReadFails(t) =>
                IsWriting(loaded[t]) /\ opp[t] /\ rheld' = rheld /\ word' = word
          /\ try_read_whole_check(t) =>
                /\ rheld[t] > 0 /\ IsReading(word) /\ rheld' = rheld /\ word' = word
                /\ ret'[t] = IF poison THEN "trw:Poisoned" ELSE "trw:Ok"
          /\ (try_read_whole_loop(t) \/ try_read_whole_check(t)) =>
                ret'[t] \in {"none", "trw:WouldBlock", "trw:Poisoned", "trw:Ok"}
      ]_vars

\* try_read_whole has returned Poisoned and its guard holds a read slot.
C6_Witness ==
    \E t \in Threads :
        ret[t] = "trw:Poisoned" /\ pc[t] = "idle" /\ rheld[t] > 0 /\ IsReading(word)

\* C7: the tail of a write guard's drop on an unwinding thread sets the
\* flag, a read_whole that tests the flag while it is set returns the
\* poisoned variant with a read slot held, the clear resets the flag, and a
\* read_whole that tests the flag while it is clear returns the plain guard.
C7_PoisonRoundTrip ==
    [][\A t \in Threads :
          /\ (write_guard_drop_tail(t) /\ unw[t]) => poison'
          /\ (read_whole_check(t) /\ poison) =>
                ret'[t] = "rw:Poisoned" /\ rheld'[t] > 0 /\ IsReading(word')
          /\ remove_poison(t) => ~poison'
          /\ (read_whole_check(t) /\ ~poison) => ret'[t] = "rw:Ok"
      ]_vars

\* C8: the drop of a write guard releases one writer slot in exactly one
\* of its steps and changes neither the word nor the count of guards in any
\* other; its tail sets the poison flag when the thread is unwinding and
\* leaves the flag as it is when it is not; no earlier step of the drop
\* touches the flag.
C8_WriteGuardDrop ==
    [][\A t \in Threads :
          /\ (drop_writer_unchecked(t) /\ pc[t] = "dw_loop") =>
                /\ poison' = poison
                /\ \/ /\ pc'[t] \in {"dw_wake", "dw_tail"}
                      /\ HasWriteFlag(word)
                      /\ Counter(word') = Counter(word) - 1
                      /\ wheld'[t] = wheld[t] - 1
                   \/ /\ pc'[t] = "dw_loop" /\ word' = word /\ wheld' = wheld
          /\ (drop_wake(t) /\ pc[t] = "dw_wake") =>
                pc'[t] = "dw_tail" /\ poison' = poison /\ word' = word /\ wheld' = wheld
          /\ write_guard_drop_tail(t) =>
                /\ word' = word /\ wheld' = wheld
                /\ unw[t] => poison'
                /\ ~unw[t] => poison' = poison
      ]_vars

\* An unwinding thread has released the last writer slot and is about to
\* set the flag.
C8_Witness ==
    \E t \in Threads : pc[t] = "dw_tail" /\ unw[t] /\ ~poison /\ word = EMPTY

\* C9: once a write guard dropped during unwinding has released its slot,
\* every read_whole and try_read_whole that tests the flag before a clear
\* returns the poisoned variant.
C9_NoUnpoisonedReaderAfterUnwind ==
    [][\A t \in Threads :
          /\ (read_whole_check(t) /\ relUnw) => ret'[t] = "rw:Poisoned"
          /\ (try_read_whole_check(t) /\ relUnw) => ret'[t] = "trw:Poisoned"
      ]_vars

\* C10: the poison flag goes from set to clear only in a step of
\* remove_poison.
C10_PoisonSticks ==
    [][(poison /\ ~poison') => \E t \in Threads : remove_poison(t)]_vars

\* The flag is set while a thread that is not unwinding is at the tail of
\* its write guard's drop.
C10_Witness ==
    \E t \in Threads : poison /\ pc[t] = "dw_tail" /\ ~unw[t]

\* What one turn of the loop of write (try = FALSE) or try_write (try =
\* TRUE) does to the word and how it ends, as a function of the value l the
\* thread has loaded and of the word w alone.
WriteTurn(l, w, try) ==
    IF IsReading(l) THEN
        [word |-> w,
         out |-> IF try THEN "tw:WouldBlock" ELSE IF w = l THEN "park" ELSE "reload"]
    ELSE IF Counter(l) = COUNTER_MAX THEN [word |-> w, out |-> "abort"]
    ELSE IF w = l THEN
        [word |-> [flag |-> 1, cnt |-> Counter(l) + 1],
         out |-> IF try THEN "tw:Guard" ELSE "w:Guard"]
    ELSE [word |-> w, out |-> "retry"]

\* What a step of thread t did to the word and how it ended.
TurnTaken(t) ==
    [word |-> word',
     out |-> IF halt' = "abort" THEN "abort"
             ELSE IF pc'[t] = "idle" THEN ret'[t]
             ELSE IF pc'[t] \in {"w_parked", "rw_parked"} THEN "park"
             ELSE IF pc'[t] \in {"w_reload", "rw_reload"} THEN "reload"
             ELSE "retry"]

\* C11: every step of write and try_write leaves the poison flag alone, and
\* its effect on the word and its result are a function of the word and of
\* the value the thread has loaded, the same whatever the poison flag holds.
C11_WriteIgnoresPoison ==
    [][\A t \in Threads :
          /\ (write_call(t) \/ write_reload(t) \/ try_write_call(t)) =>
                poison' = poison /\ word' = word /\ loaded'[t] = word
          /\ write_loop(t) =>
                poison' = poison /\ TurnTaken(t) = WriteTurn(loaded[t], word, FALSE)
          /\ try_write_loop(t) =>
                poison' = poison /\ TurnTaken(t) = WriteTurn(loaded[t], word, TRUE)
      ]_vars

\* On a poisoned lock one thread has a write guard from write and another
\* one from try_write.
C11_Witness ==
    \E a, b \in Threads :
        /\ poison /\ a # b /\ pc[a] = "idle" /\ pc[b] = "idle"
        /\ ret[a] = "w:Guard" /\ ret[b] = "tw:Guard"
        /\ wheld[a] > 0 /\ wheld[b] > 0

\* C12: try_write returns WouldBlock exactly when the value it last loaded
\* is in reader mode with a non-zero count; it returns a guard only through
\* an exchange on the value it loaded, which takes EMPTY to writer mode with
\* count 1 and writer mode with count n below COUNTER_MAX to count n + 1, and
\* that exchange succeeds whenever the word still is the value loaded.
C12_TryWriteOutcomes ==
    [][\A t \in Threads :
          try_write_loop(t) =>
              /\ ret'[t] = "tw:WouldBlock" <=> IsReading(loaded[t])
              /\ ret'[t] = "tw:WouldBlock" => word' = word /\ wheld' = wheld
              /\ ret'[t] = "tw:Guard" <=>
                    /\ word = loaded[t]
                    /\ loaded[t] = EMPTY \/ (IsWriting(loaded[t]) /\ Counter(loaded[t]) < COUNTER_MAX)
              /\ ret'[t] = "tw:Guard" =>
                    /\ HasWriteFlag(word')
                    /\ Counter(word') = Counter(word) + 1
                    /\ wheld'[t] = wheld[t] + 1
      ]_vars

\* try_write has joined a live writer: it returned a guard and the word
\* counts two writers.
C12_Witness ==
    \E t \in Threads :
        ret[t] = "tw:Guard" /\ pc[t] = "idle" /\ word = [flag |-> 1, cnt |-> 2]

Parked == {"w_parked", "rw_parked"}

\* C13: a step of try_write or try_read_whole never leaves its thread in the
\* wait: it returns, aborts, or stays in its loop, and it stays in the loop
\* only after an exchange that failed because the word had changed; the only
\* steps that park a thread are turns of the loops of write and read_whole.
C13_TryNeverParks ==
    [][\A t \in Threads :
          /\ try_write_loop(t) =>
                /\ pc'[t] \in {"idle", "tw_loop"}
                /\ (pc'[t] = "tw_loop" /\ halt' = "run") =>
                      word # loaded[t] /\ loaded'[t] = word
          /\ try_read_whole_loop(t) =>
                /\ pc'[t] \in {"trw_check", "idle", "trw_loop"}
                /\ (pc'[t] = "trw_loop" /\ halt' = "run") =>
                      word # loaded[t] /\ loaded'[t] = word
          /\ (try_write_call(t) \/ try_read_whole_call(t) \/ try_read_whole_check(t)) =>
                pc'[t] \notin Parked
          /\ (pc[t] \notin Parked /\ pc'[t] \in Parked) =>
                write_loop(t) \/ read_whole_loop(t)
      ]_vars

\* A try_write has returned WouldBlock where a write is parked, and a
\* try_read_whole where a read_whole is parked.
C13_Witness ==
    \E t, u \in Threads :
        \/ ret[t] = "tw:WouldBlock" /\ pc[t] = "idle" /\ pc[u] = "w_parked"
        \/ ret[t] = "trw:WouldBlock" /\ pc[t] = "idle" /\ pc[u] = "rw_parked"

\* C14: a write reaches the wait only with a loaded value in reader mode,
\* and a value in reader mode is loaded only while a read-whole guard is
\* live; it parks only at an instant at which a read-whole guard is live. So
\* with no read-whole guard live no writer waits, however many writers hold
\* the lock. A write that returns leaves the word in writer mode with the
\* count of live write guards, up to COUNTER_MAX.
C14_WriterFanOut ==
    [][\A t \in Threads :
          /\ (write_call(t) \/ write_reload(t) \/ write_loop(t)) =>
                /\ (loaded'[t] # loaded[t] /\ pc'[t] # "idle") => loaded'[t] = word
                /\ (pc'[t] = "w_loop" /\ LiveReaders = 0) => ~IsReading(loaded'[t])
          /\ (write_loop(t) /\ pc'[t] \in {"w_parked", "w_reload"}) =>
                IsReading(loaded[t])
          /\ (write_loop(t) /\ pc'[t] = "w_parked") =>
                LiveReaders > 0 /\ IsReading(word)
          /\ (write_loop(t) /\ ret'[t] = "w:Guard") =>
                /\ LiveReaders = 0
                /\ HasWriteFlag(word')
                /\ Counter(word') = LiveWriters'
                /\ Counter(word') <= COUNTER_MAX
      ]_vars

\* Every thread holds a write guard it got from write and the word counts
\* as many writers as there are threads.
C14_Witness ==
    /\ \A t \in Threads : pc[t] = "idle" /\ ret[t] = "w:Guard" /\ wheld[t] = 1
    /\ word = [flag |-> 1, cnt |-> NumThreads]

\* C15: a read_whole reaches the wait only with a loaded value in writer
\* mode, loaded only while a write guard is live, and parks only at an
\* instant at which a write guard is live. So with no write guard live no
\* whole-reader waits. A read_whole that takes its slot leaves the word with
\* the write flag clear and the count of live read-whole guards.
C15_ReaderFanOut ==
    [][\A t \in Threads :
          /\ (read_whole_call(t) \/ read_whole_reload(t) \/ read_whole_loop(t)) =>
                /\ (loaded'[t] # loaded[t] /\ pc'[t] # "rw_check") => loaded'[t] = word
                /\ (pc'[t] = "rw_loop" /\ LiveWriters = 0) => ~IsWriting(loaded'[t])
          /\ (read_whole_loop(t) /\ pc'[t] \in {"rw_parked", "rw_reload"}) =>
                IsWriting(loaded[t])
          /\ (read_whole_loop(t) /\ pc'[t] = "rw_parked") =>
                LiveWriters > 0 /\ IsWriting(word)
          /\ (read_whole_loop(t) /\ pc'[t] = "rw_check") =>
                /\ LiveWriters = 0
                /\ ~HasWriteFlag(word')
                /\ Counter(word') = LiveReaders'
                /\ Counter(word') <= COUNTER_MAX
      ]_vars

\* Every thread holds a read-whole guard it got from read_whole and the
\* word counts as many whole-readers as there are threads.
C15_Witness ==
    /\ \A t \in Threads :
          pc[t] = "idle" /\ ret[t] \in {"rw:Ok", "rw:Poisoned"} /\ rheld[t] = 1
    /\ word = [flag |-> 0, cnt |-> NumThreads]

InWrite(t) == pc[t] \in {"w_loop", "w_parked", "w_reload"}
InReadWhole(t) == pc[t] \in {"rw_loop", "rw_parked", "rw_reload"}

\* No read-whole guard is live and no thread is inside read_whole,
\* try_read_whole or the drop of a read-whole guard.
NoReaders ==
    /\ LiveReaders = 0
    /\ \A u \in Threads :
          pc[u] \notin {"rw_loop", "rw_parked", "rw_reload", "rw_check",
                        "trw_loop", "trw_check", "dr_loop", "dr_wake"}

\* No write guard is live and no thread is inside write, try_write or the
\* drop of a write guard.
NoWriters ==
    /\ LiveWriters = 0
    /\ \A u \in Threads :
          pc[u] \notin {"w_loop", "w_parked", "w_reload", "tw_loop",
                        "dw_loop", "dw_wake", "dw_tail"}

\* Every thread but t is outside every call and every drop.
OthersIdle(t) == \A u \in Threads \ {t} : pc[u] = "idle"

\* C16 as stated: if from some point on no read-whole guard is live and no
\* read_whole runs, a thread parked in write eventually returns with a guard.
C16_WriterReturns ==
    \A t \in Threads :
        (<>[]NoReaders) =>
            (pc[t] = "w_parked" ~> ((pc[t] = "idle" /\ ret[t] = "w:Guard") \/ halt # "run"))

\* C16, amended: a thread parked in write while the word is EMPTY leaves the
\* wait; if from some point on no read-whole guard is live and no read_whole
\* runs, a thread parked in write leaves the wait; and if in addition the
\* other threads from some point on stay outside every call and drop, a
\* thread inside write returns with a guard.
C16_WriterWoken ==
    \A t \in Threads :
        /\ (pc[t] = "w_parked" /\ word = EMPTY) ~> (pc[t] # "w_parked" \/ halt # "run")
        /\ (<>[]NoReaders) =>
              (pc[t] = "w_parked" ~> (pc[t] # "w_parked" \/ halt # "run"))
        /\ (<>[](NoReaders /\ OthersIdle(t))) =>
              (InWrite(t) ~> ((pc[t] = "idle" /\ ret[t] = "w:Guard") \/ halt # "run"))

\* A thread is parked in write, the last read-whole guard has just been
\* released and its wake_all has not run yet.
C16_Witness ==
    \E t, u \in Threads :
        pc[t] = "w_parked" /\ word = EMPTY /\ pc[u] = "dr_wake" /\ LiveReaders = 0

\* C17 as stated: if from some point on no write guard is live and no write
\* runs, a thread parked in read_whole eventually holds a read-whole guard.
C17_ReaderReturns ==
    \A t \in Threads :
        (<>[]NoWriters) =>
            (pc[t] = "rw_parked" ~> ((pc[t] \in {"rw_check", "idle"} /\ rheld[t] > 0) \/ halt # "run"))

\* C17, amended: the same three statements as for C16, for a thread in
\* read_whole against write guards.
C17_ReaderWoken ==
    \A t \in Threads :
        /\ (pc[t] = "rw_parked" /\ word = EMPTY) ~> (pc[t] # "rw_parked" \/ halt # "run")
        /\ (<>[]NoWriters) =>
              (pc[t] = "rw_parked" ~> (pc[t] # "rw_parked" \/ halt # "run"))
        /\ (<>[](NoWriters /\ OthersIdle(t))) =>
              (InReadWhole(t) ~> ((pc[t] \in {"rw_check", "idle"} /\ rheld[t] > 0) \/ halt # "run"))

\* A thread is parked in read_whole, the last write guard has just been
\* released and its wake_all has not run yet.
C17_Witness ==
    \E t, u \in Threads :
        pc[t] = "rw_parked" /\ word = EMPTY /\ pc[u] = "dw_wake" /\ LiveWriters = 0

\* A turn of the loop of one of the four acquires.
AcquireTurn(t) ==
    write_loop(t) \/ try_write_loop(t) \/ read_whole_loop(t) \/ try_read_whole_loop(t)

\* The value t has loaded is one its acquire would join: writer mode for
\* write and try_write, reader mode for read_whole and try_read_whole.
Joins(t) ==
    IF pc[t] \in {"w_loop", "tw_loop"} THEN IsWriting(loaded[t]) ELSE IsReading(loaded[t])

\* C18: the holder count stays within COUNTER_MAX; an acquire changes the
\* word only by raising a count below COUNTER_MAX by one, with the write
\* flag kept (or set from EMPTY as the acquire's mode requires); an acquire
\* whose loaded value is one it would join and has count COUNTER_MAX aborts
\* the process and leaves the word alone, and no acquire aborts otherwise.
C18_NoCounterWrap ==
    [][/\ Counter(word) <= COUNTER_MAX /\ Counter(word') <= COUNTER_MAX
       /\ \A t \in Threads :
             AcquireTurn(t) =>
                 /\ word' # word =>
                       /\ Counter(word) < COUNTER_MAX
                       /\ Counter(word') = Counter(word) + 1
                       /\ HasWriteFlag(word') = (pc[t] \in {"w_loop", "tw_loop"})
                       /\ word # EMPTY => HasWriteFlag(word') = HasWriteFlag(word)
                 /\ (Joins(t) /\ Counter(loaded[t]) = COUNTER_MAX) =>
                       halt' = "abort" /\ word' = word /\ wheld' = wheld /\ rheld' = rheld
                 /\ halt' = "abort" => Joins(t) /\ Counter(loaded[t]) = COUNTER_MAX
      ]_vars

\* An acquire has aborted the process with the count at COUNTER_MAX, after
\* an earlier acquire raised the count to it.
C18_Witness ==
    /\ halt = "abort" /\ Counter(word) = COUNTER_MAX
    /\ \E t \in Threads : Holds(t) > 0

\* C27: the count of the lock word is the number of live guards: of live
\* write guards when the write flag is set, of live read-whole guards when
\* it is clear, and the word is EMPTY exactly when no guard is live.
C27_CountIsGuards ==
    /\ HasWriteFlag(word) => (Counter(word) = LiveWriters /\ LiveReaders = 0)
    /\ ~HasWriteFlag(word) => (Counter(word) = LiveReaders /\ LiveWriters = 0)
    /\ word = EMPTY <=> LiveWriters + LiveReaders = 0

\* Two write guards are live, one of them about to be dropped, with no
\* leaked guard in the count.
C27_Witness ==
    /\ leaked = [w |-> 0, r |-> 0] /\ word = [flag |-> 1, cnt |-> 2]
    /\ \E t, u \in Threads :
          t # u /\ wheld[t] = 1 /\ wheld[u] = 1 /\ pc[t] = "dw_loop" /\ pc[u] = "idle"

\* The exchange of the guard drop of t (at from) that releases its slot.
Releases(t, from) == drop_writer_unchecked(t) /\ pc[t] = from /\ word' # word

\* The threads other than t are where they were.
OthersStay(t) == \A u \in Threads \ {t} : pc'[u] = pc[u]

\* The wake_all of t has left no thread parked.
Wakes(t, at) ==
    (pc[t] = at /\ pc'[t] # at) => \A u \in Threads : pc'[u] \notin Parked

\* C28: the drop of a write guard takes a word with the write flag and a
\* count n > 1 to the same word with count n - 1 and wakes nobody; it takes
\* the count 1 to EMPTY and goes on to wake_all, which leaves no thread
\* parked; every step that makes the word EMPTY is of a thread that goes on
\* to wake_all, and that thread gets there.
C28_WriteGuardRelease ==
    /\ [][\A t \in Threads :
            /\ Releases(t, "dw_loop") =>
                  /\ HasWriteFlag(word) /\ OthersStay(t)
                  /\ IF Counter(word) > 1
                     THEN word' = [flag |-> 1, cnt |-> Counter(word) - 1] /\ pc'[t] = "dw_tail"
                     ELSE word' = EMPTY /\ pc'[t] = "dw_wake"
            /\ Wakes(t, "dw_wake")
            /\ (word # EMPTY /\ word' = EMPTY /\ pc'[t] # pc[t]) =>
                  pc'[t] \in {"dw_wake", "dr_wake"}]_vars
    /\ \A t \in Threads : (pc[t] = "dw_wake") ~> (pc[t] = "dw_tail")

\* The last write guard has released its slot and its thread is about to
\* wake a reader that is parked.
C28_Witness ==
    \E t, u \in Threads :
        pc[t] = "dw_wake" /\ pc[u] = "rw_parked" /\ word = EMPTY /\ halt = "run"

\* C29: the drop of a read-whole guard takes a word without the write flag
\* and a count n > 1 to the same word with count n - 1 and wakes nobody; it
\* takes the count 1 to EMPTY and goes on to wake_all, which leaves no
\* thread parked, and its thread gets there; it never sets the write flag
\* and changes the count by one and no more.
C29_ReadGuardRelease ==
    /\ [][\A t \in Threads :
            /\ Releases(t, "dr_loop") =>
                  /\ ~HasWriteFlag(word) /\ ~HasWriteFlag(word') /\ OthersStay(t)
                  /\ Counter(word') = Counter(word) - 1
                  /\ rheld'[t] = rheld[t] - 1
                  /\ pc'[t] = IF Counter(word) > 1 THEN "idle" ELSE "dr_wake"
            /\ Wakes(t, "dr_wake")]_vars
    /\ \A t \in Threads : (pc[t] = "dr_wake") ~> (pc[t] = "idle")

\* The last read-whole guard has released its slot and its thread is about
\* to wake a writer that is parked.
C29_Witness ==
    \E t, u \in Threads :
        pc[t] = "dr_wake" /\ pc[u] = "w_parked" /\ word = EMPTY /\ halt = "run"

\* C30: read() can be called by a thread that is in no call of the lock
\* whatever the lock word and the poison flag are, returns in that one step
\* and leaves the lock word, the poison flag, the refcount header and the
\* guards as they were.
C30_ReadIsImmediate ==
    /\ [][\A t \in Threads :
            read(t) =>
                /\ pc'[t] = "idle" /\ ret'[t] = "r:Ref"
                /\ UNCHANGED <<word, poison, counter, wheld, rheld, halt>>]_vars
    /\ [](\A t \in Threads : (halt = "run" /\ pc[t] = "idle") => ENABLED read(t))

\* read() has returned to a thread while the other thread holds a write
\* guard and the lock is poisoned.
C30_Witness ==
    \E t, u \in Threads :
        t # u /\ ret[t] = "r:Ref" /\ pc[t] = "idle" /\ wheld[u] = 1 /\ poison /\ halt = "run"

\* C31: a thread whose wait has returned, woken or not and whatever the
\* word has become, loads the word again before anything else; a thread that
\* has loaded a word of the opposing mode with a count waits (again) and
\* does not acquire; and no slot is ever taken while a guard of the opposing
\* mode is live. A weak exchange that fails spuriously hands back the value
\* the thread already has and changes nothing.
C31_WakeRechecks ==
    [][\A t \in Threads :
          /\ (pc[t] = "w_reload" /\ pc'[t] # "w_reload") =>
                (pc'[t] = "w_loop" /\ loaded'[t] = word /\ word' = word /\ wheld'[t] = wheld[t])
          /\ (pc[t] = "rw_reload" /\ pc'[t] # "rw_reload") =>
                (pc'[t] = "rw_loop" /\ loaded'[t] = word /\ word' = word /\ rheld'[t] = rheld[t])
          /\ (pc[t] = "w_loop" /\ IsReading(loaded[t]) /\ pc'[t] # pc[t]) =>
                (pc'[t] \in {"w_parked", "w_reload"} /\ word' = word)
          /\ (pc[t] = "rw_loop" /\ IsWriting(loaded[t]) /\ pc'[t] # pc[t]) =>
                (pc'[t] \in {"rw_parked", "rw_reload"} /\ word' = word)
          /\ wheld'[t] > wheld[t] => (LiveReaders = 0 /\ ~IsReading(word) /\ ~IsReading(word'))
          /\ rheld'[t] > rheld[t] => (LiveWriters = 0 /\ ~IsWriting(word) /\ ~IsWriting(word'))
      ]_vars

\* The wait of a writer has returned while a read-whole guard is live.
C31_Witness ==
    \E t, u \in Threads :
        /\ pc[t] = "w_reload" /\ IsReading(word) /\ rheld[u] > 0
        /\ leaked = [w |-> 0, r |-> 0] /\ halt = "run"

\* A step of a try call of t.
TryStep(t) ==
    \/ try_write_call(t) \/ try_write_loop(t)
    \/ try_read_whole_call(t) \/ try_read_whole_loop(t) \/ try_read_whole_check(t)

\* C33: the only step of a try call that changes the lock word is the
\* exchange that takes the slot, no step of it changes the poison flag, and
\* the step that returns WouldBlock leaves the word, the poison flag and the
\* guards of every thread as they were, with its thread in no call: the
\* attempt that failed holds nothing and has nothing to release.
C33_WouldBlockLeavesNoTrace ==
    [][\A t \in Threads :
          /\ TryStep(t) =>
                /\ poison' = poison
                /\ word' # word => wheld'[t] + rheld'[t] = wheld[t] + rheld[t] + 1
          /\ (ret'[t] \in {"tw:WouldBlock", "trw:WouldBlock"} /\ ret[t] # ret'[t]) =>
                /\ word' = word /\ poison' = poison
                /\ wheld' = wheld /\ rheld' = rheld
                /\ pc'[t] = "idle" /\ halt' = halt
      ]_vars

\* try_write has returned WouldBlock to a thread that holds nothing while
\* the read-whole guard of another thread is the only entry in the count.
C33_Witness ==
    \E t, u \in Threads :
        /\ ret[t] = "tw:WouldBlock" /\ pc[t] = "idle" /\ Holds(t) = 0
        /\ rheld[u] = 1 /\ word = READ_FIRST
        /\ leaked = [w |-> 0, r |-> 0] /\ halt = "run"

\* C35: the lock word never has the write flag with a count of 0: it is
\* EMPTY or its count is 1 or more, and so is every value a thread has
\* loaded from it, so that the comparison with EMPTY finds exactly the
\* words with no holder.
C35_NoFlagWithoutCount ==
    /\ word = EMPTY \/ Counter(word) >= 1
    /\ word = EMPTY <=> Counter(word) = 0
    /\ \A t \in Threads : loaded[t] = EMPTY <=> Counter(loaded[t]) = 0

\* The only write guard has released its slot: the word went from the flag
\* with count 1 to EMPTY.
C35_Witness ==
    \E t \in Threads :
        pc[t] = "dw_wake" /\ word = EMPTY /\ LiveWriters = 0 /\ halt = "run"

\* C36: the exchange by which the drop of a read-whole guard releases its
\* slot (in drop_writer_unchecked) leaves the word that the fetch_sub of
\* drop_whole_reader_unchecked would have left on the same word, and is
\* followed by wake_all exactly when that one would be, whatever the other
\* threads did between the load and the exchange.
C36_ReaderReleasesAgree ==
    [][\A t \in Threads :
          Releases(t, "dr_loop") =>
              /\ IsReading(word)
              /\ word' = drop_whole_reader_unchecked(word).word
              /\ (pc'[t] = "dr_wake") <=> drop_whole_reader_unchecked(word).wake
      ]_vars

\* A read-whole guard is being dropped with a loaded value that another
\* reader has made stale since.
C36_Witness ==
    \E t, u \in Threads :
        /\ t # u /\ pc[t] = "dr_loop" /\ loaded[t] # word
        /\ IsReading(word) /\ IsReading(loaded[t]) /\ rheld[u] > 0 /\ halt = "run"

\* C37: when one thread has taken a read slot in read_whole and another in
\* try_read_whole, and both are about to test the same poison flag, one is
\* handed the poisoned variant exactly when the other is.
C37_SamePoisonVerdict ==
    \A t, u \in Threads :
        (pc[t] = "rw_check" /\ pc[u] = "trw_check") =>
            ((read_whole_result(poison) = "rw:Poisoned")
                <=> (try_read_whole_result(poison) = "trw:Poisoned"))

\* ------------------------------------------------ the refcount header

\* usize::BITS of the 64-bit targets the crate is built for.
USIZE_BITS == 64

\* The AtomicUsize of InnerArc is kept as its 16-bit limbs, lowest first,
\* since the word itself exceeds the integers TLC computes with.
LimbBase == 2 ^ 16
NumLimbs == USIZE_BITS \div 16
HalfLimbs == (USIZE_BITS \div 2) \div 16

RECURSIVE Limbs(_, _)
Limbs(v, n) == IF n = 0 THEN <<>> ELSE <<v>> \o Limbs(v, n - 1)

\* A value below 2^16 as a usize.
Usize(n) == <<n>> \o Limbs(0, NumLimbs - 1)

\* w << usize::BITS / 2
ShlHalf(w) == Limbs(0, HalfLimbs) \o SubSeq(w, 1, NumLimbs - HalfLimbs)

\* The low half and the high half of a header word, as half-words.
SharedHalf(w) == SubSeq(w, 1, HalfLimbs)
UniqueHalf(w) == SubSeq(w, HalfLimbs + 1, NumLimbs)
Half(n) == <<n>> \o Limbs(0, HalfLimbs - 1)
\* The largest value of a half.
HalfMax == Limbs(LimbBase - 1, HalfLimbs)

RECURSIVE AddFrom(_, _, _, _)
AddFrom(a, b, i, carry) ==
    IF i > Len(a) THEN <<>>
    ELSE LET sum == a[i] + b[i] + carry
         IN <<sum % LimbBase>> \o AddFrom(a, b, i + 1, sum \div LimbBase)

RECURSIVE SubFrom(_, _, _, _)
SubFrom(a, b, i, borrow) ==
    IF i > Len(a) THEN <<>>
    ELSE LET d == a[i] - b[i] - borrow
         IN <<(d + LimbBase) % LimbBase>> \o SubFrom(a, b, i + 1, IF d < 0 THEN 1 ELSE 0)

\* The value AtomicUsize::fetch_add / fetch_sub leave behind: they wrap.
WrappingAdd(a, b) == AddFrom(a, b, 1, 0)
WrappingSub(a, b) == SubFrom(a, b, 1, 0)

SHARED_COUNTER_ONE == Usize(1)
UNIQUE_COUNTER_ONE == ShlHalf(Usize(1))
SHARED_COUNTER_MAX == Limbs(LimbBase - 1, HalfLimbs) \o Limbs(0, NumLimbs - HalfLimbs)
UNIQUE_COUNTER_MAX == ShlHalf(SHARED_COUNTER_MAX)

\* Mutation of decrement_shared_counter: the test looks at the shared half
\* of the word only.
decrement_shared_counter_tests_half(c) ==
    [word |-> WrappingSub(c, SHARED_COUNTER_ONE), result |-> SharedHalf(c) = Half(1)]

\* Each returns the word the fetch leaves and the bool the function returns.
decrement_shared_counter(c) ==
    [word |-> WrappingSub(c, SHARED_COUNTER_ONE), result |-> c = SHARED_COUNTER_ONE]

decrement_unique_counter(c) ==
    [word |-> WrappingSub(c, UNIQUE_COUNTER_ONE), result |-> c = UNIQUE_COUNTER_ONE]

increment_shared_counter(c) ==
    [word |-> WrappingAdd(c, SHARED_COUNTER_ONE), result |-> c = SHARED_COUNTER_MAX]

increment_unique_counter(c) ==
    [word |-> WrappingAdd(c, UNIQUE_COUNTER_ONE), result |-> c = UNIQUE_COUNTER_MAX]

\* ------------------------------------------------------- the handles

\* A handle is its type and, for an element handle, the offset of its
\* subfield in the slice.
SliceWrapper == [kind |-> "slice", idx |-> 0]
IterHandle == [kind |-> "iter", idx |-> 0]
IterMutHandle == [kind |-> "iter_mut", idx |-> 0]
Element(i) == [kind |-> "elem", idx |-> i]
ElementMut(i) == [kind |-> "elem_mut", idx |-> i]

lockRest == <<word, poison, pc, loaded, unw, ret, wheld, rheld, opp, relUnw, leaked>>

\* A unique slice wrapper over a fresh allocation: the header starts at one
\* unit of the category of the first owner.
new_unique_slice(len, nd) ==
    /\ counter = UNIQUE_COUNTER_ONE
    /\ handles = {SliceWrapper}
    /\ remainder = <<0, len>>
    /\ slice_len = len
    /\ needs_drop = nd
    /\ converted = "no"
    /\ pending = 0
    /\ dtors = 0
    /\ deallocs = 0
    /\ data = [i \in 1 .. len |-> 0]
    /\ yields = <<>>

ArcInit == \E len \in 0 .. MaxLen : \E nd \in BOOLEAN : new_unique_slice(len, nd)

InitArc == LockInit /\ leaked = [w |-> 0, r |-> 0] /\ ArcInit /\ SimIdle

\* UniqueArcSliceRwLock::iter
iter ==
    /\ halt = "run" /\ SliceWrapper \in handles
    /\ LET dec == decrement_unique_counter(counter)
           inc == increment_shared_counter(dec.word)
       IN /\ counter' = inc.word
          /\ halt' = IF inc.result THEN "abort" ELSE halt
    /\ handles' = (handles \ {SliceWrapper}) \union {IterHandle}
    /\ converted' = "iter"
    /\ UNCHANGED <<data, yields, remainder, slice_len, needs_drop, pending, dtors, deallocs, lockRest, simVars, layoutVars>>

\* Mutation of iter_mut: the unit is moved to the shared half, as iter() does.
iter_mut_moves_unit ==
    /\ halt = "run" /\ SliceWrapper \in handles
    /\ counter' = increment_shared_counter(decrement_unique_counter(counter).word).word
    /\ handles' = (handles \ {SliceWrapper}) \union {IterMutHandle}
    /\ converted' = "iter_mut"
    /\ UNCHANGED <<data, yields, remainder, slice_len, needs_drop, pending, dtors, deallocs, lockVars, simVars, layoutVars>>

\* UniqueArcSliceRwLock::iter_mut
iter_mut ==
    /\ halt = "run" /\ SliceWrapper \in handles
    /\ handles' = (handles \ {SliceWrapper}) \union {IterMutHandle}
    /\ converted' = "iter_mut"
    /\ UNCHANGED <<data, yields, counter, remainder, slice_len, needs_drop, pending, dtors, deallocs, lockVars, simVars, layoutVars>>

\* Mutation of PeelAt: both ends peel the first element.
PeelAt_front_only(front) == remainder[1]

\* The offset of the element next (front) or next_back peels off.
PeelAt(front) == IF front THEN remainder[1] ELSE remainder[1] + remainder[2] - 1

\* Mutation of Peel: the remainder is shortened but keeps its first element.
Peel_keeps_front(front, inc, yielded) ==
    IF remainder[2] > 0 THEN
        /\ remainder' = <<remainder[1], remainder[2] - 1>>
        /\ counter' = inc.word
        /\ halt' = IF inc.result THEN "abort" ELSE halt
        /\ handles' = IF inc.result THEN handles ELSE handles \union {yielded}
        /\ yields' = IF inc.result THEN yields ELSE Append(yields, yielded.idx)
    ELSE UNCHANGED <<remainder, counter, halt, handles, yields>>

\* What next and next_back of an iterator do, given the increment inc they
\* make and the handle they yield; front says which end is peeled.
Peel(front, inc, yielded) ==
    IF remainder[2] > 0 THEN
        /\ remainder' = <<IF front THEN remainder[1] + 1 ELSE remainder[1],
                          remainder[2] - 1>>
        /\ counter' = inc.word
        /\ halt' = IF inc.result THEN "abort" ELSE halt
        /\ handles' = IF inc.result THEN handles ELSE handles \union {yielded}
        /\ yields' = IF inc.result THEN yields ELSE Append(yields, yielded.idx)
    ELSE UNCHANGED <<remainder, counter, halt, handles, yields>>

\* Iter::next
Iter_next ==
    /\ halt = "run" /\ IterHandle \in handles
    /\ Peel(TRUE, increment_shared_counter(counter), Element(PeelAt(TRUE)))
    /\ UNCHANGED <<data, slice_len, needs_drop, converted, pending, dtors, deallocs, lockRest, simVars, layoutVars>>

\* Iter::next_back
Iter_next_back ==
    /\ halt = "run" /\ IterHandle \in handles
    /\ Peel(FALSE, increment_shared_counter(counter), Element(PeelAt(FALSE)))
    /\ UNCHANGED <<data, slice_len, needs_drop, converted, pending, dtors, deallocs, lockRest, simVars, layoutVars>>

\* IterMut::next
IterMut_next ==
    /\ halt = "run" /\ IterMutHandle \in handles
    /\ Peel(TRUE, increment_unique_counter(counter), ElementMut(PeelAt(TRUE)))
    /\ UNCHANGED <<data, slice_len, needs_drop, converted, pending, dtors, deallocs, lockRest, simVars, layoutVars>>

\* IterMut::next_back
IterMut_next_back ==
    /\ halt = "run" /\ IterMutHandle \in handles
    /\ Peel(FALSE, increment_unique_counter(counter), ElementMut(PeelAt(FALSE)))
    /\ UNCHANGED <<data, slice_len, needs_drop, converted, pending, dtors, deallocs, lockRest, simVars, layoutVars>>

\* The head of every Drop, given the decrement dec it makes; a drop that was
\* told the header is empty goes on to drop_in_place and deallocate.
Release(h, dec) ==
    /\ halt = "run" /\ h \in handles
    /\ counter' = dec.word
    /\ pending' = IF dec.result THEN pending + 1 ELSE pending
    /\ handles' = handles \ {h}
    /\ UNCHANGED <<data, yields, remainder, slice_len, needs_drop, converted, dtors, deallocs, lockVars, simVars, layoutVars>>

\* Mutation of ArcMappedRwLock_drop: the drop of the unique category.
ArcMappedRwLock_drop_unique(h) ==
    /\ h.kind \in {"slice", "elem"}
    /\ Release(h, decrement_unique_counter(counter))

\* Drop for ArcMappedRwLock: the type of the slice wrapper and of the
\* elements Iter yields (the aliases of lib.rs).
ArcMappedRwLock_drop(h) ==
    /\ h.kind \in {"slice", "elem"}
    /\ Release(h, decrement_shared_counter(counter))

\* Drop for UniqueArcMappedRwLock
UniqueArcMappedRwLock_drop(h) ==
    /\ h.kind = "elem_mut"
    /\ Release(h, decrement_unique_counter(counter))

\* Drop for Iter
Iter_drop ==
    /\ IterHandle \in handles
    /\ Release(IterHandle, decrement_unique_counter(counter))

\* Drop for IterMut
IterMut_drop ==
    /\ IterMutHandle \in handles
    /\ Release(IterMutHandle, decrement_unique_counter(counter))

\* The tail of a Drop that emptied the header.
drop_in_place_and_deallocate ==
    /\ halt = "run" /\ pending > 0
    /\ pending' = pending - 1
    /\ dtors' = IF needs_drop THEN dtors + 1 ELSE dtors
    /\ deallocs' = deallocs + 1
    /\ UNCHANGED <<data, yields, counter, handles, remainder, slice_len, needs_drop, converted, lockVars, simVars, layoutVars>>

NextArc ==
    \/ iter \/ iter_mut
    \/ Iter_next \/ Iter_next_back
    \/ IterMut_next \/ IterMut_next_back
    \/ \E h \in handles : ArcMappedRwLock_drop(h)
    \/ \E h \in handles : UniqueArcMappedRwLock_drop(h)
    \/ Iter_drop \/ IterMut_drop
    \/ drop_in_place_and_deallocate

SpecArc == InitArc /\ [][NextArc]_vars

\* ------------------------------- properties of the header (SpecArc)

\* The category of a handle: the elements Iter yields are shared, the
\* wrapper, IterMut and its elements are unique, and Iter, which iter()
\* builds with a shared unit and whose Drop releases a unique one, is taken
\* as ic.
Category(h, ic) ==
    IF h.kind = "elem" THEN "shared"
    ELSE IF h.kind = "iter" THEN ic
    ELSE "unique"
Live(cat, ic) == Cardinality({h \in handles : Category(h, ic) = cat})

\* C3: the destructor and the deallocation never run twice, and once the
\* slice wrapper has been converted with iter() or iter_mut(), every handle
\* has been dropped and every drop has returned, the block has been
\* deallocated exactly once and the destructor of a payload that needs one
\* has run exactly once.
C3_ExactlyOnce ==
    halt = "run" =>
        /\ deallocs <= 1 /\ dtors <= 1
        /\ (converted # "no" /\ handles = {} /\ pending = 0) =>
              (deallocs = 1 /\ dtors = IF needs_drop THEN 1 ELSE 0)

\* C4: after iter(), iter_mut() and every operation that follows them, the
\* shared half of the header is the number of live shared handles and the
\* unique half the number of live unique handles, with the immutable
\* iterator counted in one of the two categories.
C4_HeaderCountsHandles ==
    (halt = "run" /\ converted # "no" /\ deallocs = 0) =>
        \E ic \in {"shared", "unique"} :
            /\ SharedHalf(counter) = Half(Live("shared", ic))
            /\ UniqueHalf(counter) = Half(Live("unique", ic))

\* C21: whatever the order in which the handles of a converted wrapper are
\* dropped, at most one decrement is told the header is empty, the block is
\* deallocated only when no handle is left, and once no handle is left
\* exactly one decrement has been told so (it is about to deallocate, or has).
C21_OneDropEmpties ==
    halt = "run" =>
        /\ pending + deallocs <= 1
        /\ deallocs > 0 => handles = {}
        /\ (converted # "no" /\ handles = {}) => pending + deallocs = 1

\* The same on the handles whose drops decrement the half their creation
\* incremented (IterMut and the elements it yields).
C21_OneDropEmptiesIterMut ==
    (halt = "run" /\ converted = "iter_mut") =>
        /\ pending + deallocs <= 1
        /\ deallocs > 0 => handles = {}
        /\ handles = {} => pending + deallocs = 1

\* What a call of Iter that found an element and did not abort has done:
\* the remainder lost its first (front) or last element, the header gained
\* one shared unit, and a new handle over that element exists.
IterPeeled(front) ==
    (remainder[2] > 0 /\ halt' = "run") =>
        /\ remainder' = <<IF front THEN remainder[1] + 1 ELSE remainder[1], remainder[2] - 1>>
        /\ counter' = WrappingAdd(counter, SHARED_COUNTER_ONE)
        /\ UniqueHalf(counter') = UniqueHalf(counter)
        /\ LET e == Element(IF front THEN remainder[1] ELSE remainder[1] + remainder[2] - 1)
           IN e \notin handles /\ handles' = handles \union {e}

\* A call of Iter that changes the remainder, the header or the handles.
IterYields ==
    (Iter_next \/ Iter_next_back)
        /\ <<remainder, counter, handles>>' # <<remainder, counter, handles>>

\* C22: next and next_back of Iter on a remainder that is not empty remove
\* one element from the front resp. the back of the remainder, add one unit
\* to the shared half, leave the unique half alone and yield a handle over
\* the removed element; on an empty remainder they change neither the
\* remainder nor the header and yield no handle.
C22_IterPeels ==
    /\ [][/\ Iter_next => IterPeeled(TRUE)
          /\ Iter_next_back => IterPeeled(FALSE)]_vars
    /\ [](remainder[2] = 0 => ~ENABLED IterYields)

\* Both ends of a slice of two or more elements have been peeled.
C22_Witness ==
    /\ converted = "iter" /\ halt = "run" /\ slice_len >= 2
    /\ Element(0) \in handles /\ Element(slice_len - 1) \in handles
    /\ remainder = <<1, slice_len - 2>>

\* C23: a handle Iter yields is of the shared category: the step that
\* creates it adds one unit to the shared half and the step that drops it
\* takes one unit from the shared half, and neither changes the unique half.
C23_ElementsAreShared ==
    [][\A i \in 0 .. slice_len - 1 :
          /\ (Element(i) \notin handles /\ Element(i) \in handles') =>
                /\ counter' = WrappingAdd(counter, SHARED_COUNTER_ONE)
                /\ UniqueHalf(counter') = UniqueHalf(counter)
          /\ (Element(i) \in handles /\ Element(i) \notin handles') =>
                /\ SharedHalf(counter) # Half(0)
                /\ counter = WrappingAdd(counter', SHARED_COUNTER_ONE)
                /\ UniqueHalf(counter') = UniqueHalf(counter)
      ]_vars

\* A handle Iter yielded has been dropped while another one is live.
C23_Witness ==
    /\ converted = "iter" /\ halt = "run"
    /\ remainder[1] >= 1 /\ Element(0) \notin handles
    /\ \E i \in 1 .. slice_len - 1 : Element(i) \in handles

\* C24: iter() leaves the one unique unit of the wrapper in the header for
\* the iterator to hold, that unit stays there while the iterator lives,
\* and the drop of the iterator takes the unique half from 1 to 0 and leaves
\* the shared half alone.
C24_IterHoldsUniqueUnit ==
    /\ [][/\ iter => (UniqueHalf(counter') = Half(1) /\ counter' = counter)
          /\ Iter_drop =>
                /\ UniqueHalf(counter) = Half(1)
                /\ UniqueHalf(counter') = Half(0)
                /\ SharedHalf(counter') = SharedHalf(counter)]_vars
    /\ []((halt = "run" /\ IterHandle \in handles) => UniqueHalf(counter) = Half(1))

\* The offsets of the elements of the remainder, and of the elements yielded.
RemRange == remainder[1] .. (remainder[1] + remainder[2] - 1)
YieldedSet == {yields[k] : k \in 1 .. Len(yields)}

\* C25: for a slice of length L and any interleaving of next and next_back
\* of an iterator, at most L handles are yielded, no element is yielded
\* twice, no yielded element is in the remainder, every live element handle
\* is over a yielded element, the yielded elements and the remainder
\* together are the slice, and after L yields the yielded elements are the
\* whole slice and the remainder is empty.
C25_PartitionDisjoint ==
    halt = "run" =>
        /\ Len(yields) <= slice_len
        /\ \A j, k \in 1 .. Len(yields) : j # k => yields[j] # yields[k]
        /\ YieldedSet \intersect RemRange = {}
        /\ \A h \in handles : h.kind \in {"elem", "elem_mut"} => h.idx \in YieldedSet
        /\ YieldedSet \union RemRange = 0 .. slice_len - 1
        /\ Len(yields) = slice_len => (YieldedSet = 0 .. slice_len - 1 /\ remainder[2] = 0)

\* A slice of three or more elements has been handed out whole, the last
\* element first and the first element second.
C25_Witness ==
    /\ halt = "run" /\ slice_len >= 3 /\ Len(yields) = slice_len
    /\ yields[1] = slice_len - 1 /\ yields[2] = 0
    /\ remainder[2] = 0

\* C32: iter_mut() replaces the slice wrapper by the mutable iterator and
\* leaves the header, the lock word, the poison flag and the remainder as
\* they were: the header keeps the one unique unit of the wrapper and gains
\* no shared unit.
C32_IterMutKeepsHeader ==
    [][iter_mut =>
          /\ counter' = counter /\ word' = word /\ poison' = poison
          /\ UniqueHalf(counter') = Half(1) /\ SharedHalf(counter') = Half(0)
          /\ SliceWrapper \in handles /\ handles' = {IterMutHandle}
          /\ remainder' = remainder /\ remainder = <<0, slice_len>>
      ]_vars

\* The wrapper of a slice that is not empty has been turned into the mutable
\* iterator, which has yielded nothing yet.
C32_Witness ==
    /\ converted = "iter_mut" /\ handles = {IterMutHandle} /\ slice_len >= 1
    /\ yields = <<>> /\ counter = UNIQUE_COUNTER_ONE /\ halt = "run"

\* C34: in every run of iter(), next, next_back, the drop of the iterator
\* and the drops of the element handles, a decrement finds the half it
\* lowers at 1 or more, and lowers that half by one without a borrow from
\* beyond it.
C34_NoDecrementOfZero ==
    [][/\ iter => UniqueHalf(counter) # Half(0)
       /\ Iter_drop =>
             /\ UniqueHalf(counter) # Half(0)
             /\ WrappingAdd(counter', UNIQUE_COUNTER_ONE) = counter
             /\ UniqueHalf(counter') # HalfMax
       /\ \A h \in handles :
             (h.kind = "elem" /\ ArcMappedRwLock_drop(h)) =>
                 /\ SharedHalf(counter) # Half(0)
                 /\ SharedHalf(counter') # HalfMax
      ]_vars

\* ------------------------- the header functions on every header (SpecHeader)

\* How far from 0 and from the maximum of a half the headers of the start
\* states reach.
HeaderSlack == 4

\* The values of a half within HeaderSlack of either end.
HalfValues ==
    {Half(k) : k \in 0 .. HeaderSlack}
        \union {<<LimbBase - 1 - k>> \o Limbs(LimbBase - 1, HalfLimbs - 1) : k \in 0 .. HeaderSlack}

\* The headers with both halves within HeaderSlack of an end.
Headers == {sh \o un : sh \in HalfValues, un \in HalfValues}

\* A live allocation with any such header but the empty one, of a payload
\* with or without a destructor.
InitHeader ==
    /\ LockInit /\ leaked = [w |-> 0, r |-> 0]
    /\ counter \in Headers \ {Usize(0)}
    /\ handles = {}
    /\ remainder = <<0, 0>>
    /\ slice_len = 0
    /\ needs_drop \in BOOLEAN
    /\ converted = "no"
    /\ pending = 0
    /\ dtors = 0
    /\ deallocs = 0
    /\ data = <<>>
    /\ yields = <<>>
    /\ SimIdle

\* The block has not been deallocated and the process runs.
HeaderLive == halt = "run" /\ deallocs = 0

\* increment_shared_counter with its callers (iter(), Iter::next and
\* Iter::next_back): they abort the process when it returns true.  The calls
\* are followed while the header stays within Headers.
increment_shared_or_abort ==
    LET inc == increment_shared_counter(counter)
    IN /\ HeaderLive
       /\ inc.result \/ inc.word \in Headers
       /\ counter' = inc.word
       /\ halt' = IF inc.result THEN "abort" ELSE halt
       /\ UNCHANGED <<data, yields, handles, remainder, slice_len, needs_drop, converted, pending, dtors,
                      deallocs, lockRest, simVars, layoutVars>>

\* increment_unique_counter: the fetch_add and nothing more.  No function
\* under src/ calls it, so nothing acts on the value it returns,
\* increment_unique_counter(counter).result, and the process goes on.
increment_unique_call ==
    LET inc == increment_unique_counter(counter)
    IN /\ HeaderLive
       /\ inc.word \in Headers
       /\ counter' = inc.word
       /\ UNCHANGED <<data, yields, handles, remainder, slice_len, needs_drop, converted, pending, dtors,
                      deallocs, lockVars, simVars, layoutVars>>

\* A Drop, given the decrement dec it makes: when the decrement returns true
\* it runs drop_in_place (for a payload that needs it) and deallocate before
\* it returns.  The Drop does not look at the half it decrements: on a half
\* that is 0 the fetch_sub borrows from the other half.
DecrementThenFree(dec) ==
    /\ HeaderLive
    /\ dec.word \in Headers
    /\ counter' = dec.word
    /\ dtors' = IF dec.result /\ needs_drop THEN dtors + 1 ELSE dtors
    /\ deallocs' = IF dec.result THEN deallocs + 1 ELSE deallocs
    /\ UNCHANGED <<data, yields, handles, remainder, slice_len, needs_drop, converted, pending,
                   lockVars, simVars, layoutVars>>

\* Drop for ArcMappedRwLock
decrement_shared_then_free == DecrementThenFree(decrement_shared_counter(counter))
\* Drop for UniqueArcMappedRwLock, Drop for Iter
decrement_unique_then_free == DecrementThenFree(decrement_unique_counter(counter))

NextHeader ==
    \/ increment_shared_or_abort \/ increment_unique_call
    \/ decrement_shared_then_free \/ decrement_unique_then_free

SpecHeader == InitHeader /\ [][NextHeader]_vars

\* C19: an increment of a half that is at its maximum aborts the process,
\* whatever the other half holds, and an increment that does not abort
\* leaves the other half as it was and does not wrap its own half to 0.
C19_IncrementKeepsOtherHalf ==
    [][/\ increment_shared_or_abort =>
             /\ SharedHalf(counter) = HalfMax => halt' = "abort"
             /\ halt' = "run" =>
                   /\ UniqueHalf(counter') = UniqueHalf(counter)
                   /\ SharedHalf(counter') # Half(0)
       /\ increment_unique_call =>
             /\ UniqueHalf(counter) = HalfMax => halt' = "abort"
             /\ halt' = "run" =>
                   /\ SharedHalf(counter') = SharedHalf(counter)
                   /\ UniqueHalf(counter') # Half(0)
      ]_vars

\* C20: a decrement returns true (its Drop deallocates) exactly when the word
\* it leaves is 0 in both halves, which is exactly when the word before was
\* the unit of that half; it takes one unit off the word, and with a target
\* half that is not 0 it leaves the other half as it was.
C20_DecrementReportsEmpty ==
    [][/\ decrement_shared_then_free =>
             /\ deallocs' = 1 <=> counter' = Usize(0)
             /\ deallocs' = 1 <=> counter = SHARED_COUNTER_ONE
             /\ SharedHalf(counter) # Half(0) => UniqueHalf(counter') = UniqueHalf(counter)
             /\ WrappingAdd(counter', SHARED_COUNTER_ONE) = counter
       /\ decrement_unique_then_free =>
             /\ deallocs' = 1 <=> counter' = Usize(0)
             /\ deallocs' = 1 <=> counter = UNIQUE_COUNTER_ONE
             /\ UniqueHalf(counter) # Half(0) => SharedHalf(counter') = SharedHalf(counter)
             /\ WrappingAdd(counter', UNIQUE_COUNTER_ONE) = counter
      ]_vars

\* A decrement has returned true and left the header empty: its Drop ran the
\* destructor of the payload and deallocated the block.
C20_Witness == deallocs = 1 /\ dtors = 1 /\ counter = Usize(0) /\ halt = "run"

\* --------------------------- the end-to-end scenario of the spec (SpecScenario)

\* Elements of the slice of the scenario, one worker thread for each.
ScenarioLen == 4

Workers == 1 .. ScenarioLen
\* The thread that splits the slice, spawns and joins the workers, and then
\* reads the whole slice.
Main == ScenarioLen + 1

\* The sentinel worker t stores; the elements start as 0.
Sentinel(t) == t

InitScenario ==
    /\ leaked = [w |-> 0, r |-> 0]
    /\ word = EMPTY
    /\ poison = FALSE
    /\ pc = [t \in 1 .. Main |-> "idle"]
    /\ loaded = [t \in 1 .. Main |-> EMPTY]
    /\ unw = [t \in 1 .. Main |-> FALSE]
    /\ ret = [t \in 1 .. Main |-> "none"]
    /\ wheld = [t \in 1 .. Main |-> 0]
    /\ rheld = [t \in 1 .. Main |-> 0]
    /\ opp = [t \in 1 .. Main |-> FALSE]
    /\ relUnw = FALSE
    /\ halt = "run"
    /\ new_unique_slice(ScenarioLen, FALSE)
    /\ SimIdle

\* Main splits the wrapper: iter_mut() and one next() for each element.
scenario_iter_mut == iter_mut
scenario_next == remainder[2] > 0 /\ IterMut_next

\* The workers are spawned once the slice is split; worker t owns the handle
\* over element t - 1.
Spawned(t) == Len(yields) = slice_len /\ ElementMut(t - 1) \in handles

\* Worker t calls write() on its handle.
worker_write_call(t) ==
    /\ Spawned(t) /\ wheld[t] = 0 /\ data[t] = 0
    /\ write_call(t)

\* No reader holds the lock before the join, so write() never waits and the
\* reload after a wait is left out.
worker_write_loop(t) == write_loop(t)

\* Worker t stores its sentinel through the guard (DerefMut).
worker_store(t) ==
    /\ halt = "run" /\ pc[t] = "idle" /\ wheld[t] > 0 /\ data[t] = 0
    /\ data' = [data EXCEPT ![t] = Sentinel(t)]
    /\ UNCHANGED <<lockVars, simVars, layoutVars, counter, handles, remainder, slice_len, needs_drop, converted,
                   pending, dtors, deallocs, yields>>

\* Worker t drops the guard without panicking.
worker_drop_call(t) ==
    /\ data[t] # 0
    /\ write_guard_drop_call(t, FALSE)

worker_drop(t) == drop_writer_unchecked(t) \/ drop_wake(t) \/ write_guard_drop_tail(t)

\* Every worker has stored its sentinel, dropped its guard and returned.
Joined == \A t \in Workers : pc[t] = "idle" /\ wheld[t] = 0 /\ data[t] # 0

\* After the join Main calls read_whole() once.
main_read_whole_call ==
    /\ Joined /\ ret[Main] = "none"
    /\ read_whole_call(Main)

\* Were read_whole() to wait, Main would stay parked: nobody is left to wake it.
main_read_whole == read_whole_loop(Main) \/ read_whole_check(Main)

NextScenario ==
    \/ scenario_iter_mut \/ scenario_next
    \/ \E t \in Workers :
          \/ worker_write_call(t) \/ worker_write_loop(t) \/ worker_store(t)
          \/ worker_drop_call(t) \/ worker_drop(t)
    \/ main_read_whole_call \/ main_read_whole

SpecScenario == InitScenario /\ [][NextScenario]_vars

\* After the join and before read_whole() the word is EMPTY.
ScenarioIdleAfterJoin ==
    (Joined /\ pc[Main] = "idle" /\ rheld[Main] = 0) => word = EMPTY

\* Neither a worker nor Main ever waits on the word.
ScenarioNeverWaits == \A t \in 1 .. Main : pc[t] \notin Parked

\* The guard read_whole() returned exposes every sentinel at its position.
ScenarioSentinels ==
    ret[Main] # "none" =>
        /\ rheld[Main] = 1
        /\ data = [i \in 1 .. ScenarioLen |-> Sentinel(i)]

\* C26: in the scenario, for every interleaving of the workers, once all of
\* them have finished the lock word is EMPTY, read_whole() takes a read slot
\* without waiting and returns the plain, not poisoned, guard, and the slice
\* holds the sentinel of each worker at the position of its element.
C26_EndToEnd ==
    /\ halt = "run"
    /\ ScenarioIdleAfterJoin
    /\ ScenarioNeverWaits
    /\ ScenarioSentinels
    /\ ret[Main] # "none" => ret[Main] = "rw:Ok"

\* ------------------------------------------- the step protocol of lib.rs

\* One simulate_output thread and SimWorkers worker threads (simulate_leading,
\* simulate_inner and simulate_trailing have the same sequence of barrier
\* waits, sends and reads) run their for loops over one Barrier, one
\* RwLock<T> (std::sync) and one adder.
Output == 0
SimThreads == 0 .. SimWorkers

\* The barrier has one slot for each participant.
num_threads == SimWorkers + 1

\* The quantity that is sent, summed and written after barrier wait k of an
\* iteration (k = 1, 3, 5).
Quantity(k) == IF k = 1 THEN "physical" ELSE IF k = 3 THEN "exchange" ELSE "kinetic"

InitSimulate ==
    /\ LockInit /\ leaked = [w |-> 0, r |-> 0] /\ ArcIdle
    /\ steps \in 0 .. SimSteps
    /\ site = [t \in SimThreads |-> "for"]
    /\ step = [t \in SimThreads |-> 0]
    /\ waited = [t \in SimThreads |-> 0]
    /\ local_gen = [t \in SimThreads |-> 0]
    /\ barrier = [count |-> 0, generation_id |-> 0]
    /\ shared_value = [readers |-> 0, value |-> "default"]
    /\ guards = [t \in SimThreads |-> <<>>]
    /\ adder = 0
    /\ LayoutIdle

\* The end of the loop body and `for step in 0..steps`, the head of the loop.
\* Control comes here from the caller and from the end of the body, where the
\* locals of the iteration go out of scope: the read guards bound to
\* `physical`, `exchange` and `kinetic` in the worker functions are dropped
\* there and nowhere earlier, the last one declared first, one unlock of
\* shared_value each.  With no guard left the loop takes its next step or the
\* function returns.  simulate_output binds no guard: it clones out of the
\* temporaries.
for_loop(t) ==
    /\ site[t] = "for"
    /\ IF guards[t] # <<>>
       THEN /\ shared_value' = [shared_value EXCEPT !.readers = @ - 1]
            /\ guards' = [guards EXCEPT ![t] = SubSeq(@, 1, Len(@) - 1)]
            /\ UNCHANGED <<site, step, waited>>
       ELSE /\ IF step[t] < steps
               THEN /\ step' = [step EXCEPT ![t] = @ + 1]
                    /\ site' = [site EXCEPT ![t] = "wait"]
               ELSE /\ site' = [site EXCEPT ![t] = "Ok"]
                    /\ step' = step
            /\ waited' = [waited EXCEPT ![t] = 0]
            /\ UNCHANGED <<shared_value, guards>>
    /\ UNCHANGED <<lockVars, arcVars, layoutVars, steps, local_gen, barrier, adder>>

\* What thread t does after it returned from barrier wait k of an iteration.
AfterWait(t, k) ==
    IF k = 1 THEN "propagate"
    ELSE IF t = Output
         THEN IF k \in {3, 5} THEN "recieve_sum" ELSE IF k = 6 THEN "for" ELSE "wait"
         ELSE IF k \in {3, 5} THEN "send" ELSE "read"

\* Barrier::wait, the arrival: the last participant of a generation resets the
\* count, starts the next generation and returns; every other one parks.
barrier_wait(t) ==
    /\ site[t] = "wait"
    /\ IF barrier.count + 1 < num_threads
       THEN /\ barrier' = [barrier EXCEPT !.count = @ + 1]
            /\ local_gen' = [local_gen EXCEPT ![t] = barrier.generation_id]
            /\ site' = [site EXCEPT ![t] = "parked"]
            /\ waited' = waited
       ELSE /\ barrier' = [count |-> 0, generation_id |-> barrier.generation_id + 1]
            /\ site' = [site EXCEPT ![t] = AfterWait(t, waited[t] + 1)]
            /\ waited' = [waited EXCEPT ![t] = @ + 1]
            /\ local_gen' = local_gen
    /\ UNCHANGED <<lockVars, arcVars, layoutVars, steps, step, shared_value, guards, adder>>

\* Barrier::wait, the return of a parked participant: the generation moved on.
barrier_wake(t) ==
    /\ site[t] = "parked"
    /\ local_gen[t] # barrier.generation_id
    /\ site' = [site EXCEPT ![t] = AfterWait(t, waited[t] + 1)]
    /\ waited' = [waited EXCEPT ![t] = @ + 1]
    /\ UNCHANGED <<lockVars, arcVars, layoutVars, steps, step, local_gen, barrier, shared_value, guards, adder>>

\* propagator.propagate and the fold of the kinetic energy of the group: they
\* touch neither the barrier, nor shared_value, nor the adder.
propagate(t) ==
    /\ site[t] = "propagate"
    /\ site' = [site EXCEPT ![t] = IF t = Output THEN "recieve_sum" ELSE "send"]
    /\ UNCHANGED <<lockVars, arcVars, layoutVars, steps, step, waited, local_gen, barrier, shared_value, guards, adder>>

\* adder.send(..) of a worker: it never waits.
send(t) ==
    /\ t # Output /\ site[t] = "send"
    /\ adder' = adder + 1
    /\ site' = [site EXCEPT ![t] = "wait"]
    /\ UNCHANGED <<lockVars, arcVars, layoutVars, steps, step, waited, local_gen, barrier, shared_value, guards>>

\* adder.recieve_sum() of simulate_output: the sum of the messages of all
\* workers.
recieve_sum(t) ==
    /\ t = Output /\ site[t] = "recieve_sum"
    /\ adder = SimWorkers
    /\ adder' = 0
    /\ site' = [site EXCEPT ![t] = "write"]
    /\ UNCHANGED <<lockVars, arcVars, layoutVars, steps, step, waited, local_gen, barrier, shared_value, guards>>

\* `*shared_value.write()? = ..` of simulate_output: RwLock::write returns
\* when no read guard is alive; the write guard is a temporary of the
\* statement.
shared_value_write(t) ==
    /\ t = Output /\ site[t] = "write"
    /\ shared_value.readers = 0
    /\ shared_value' = [shared_value EXCEPT !.value = Quantity(waited[t])]
    /\ site' = [site EXCEPT ![t] = "wait"]
    /\ UNCHANGED <<lockVars, arcVars, layoutVars, steps, step, waited, local_gen, barrier, guards, adder>>

\* `let physical = shared_value.read()?;` of a worker (and the same for
\* exchange and kinetic): the guard is bound to the local, it stays alive to
\* the end of the iteration.
shared_value_read(t) ==
    /\ t # Output /\ site[t] = "read"
    /\ shared_value' = [shared_value EXCEPT !.readers = @ + 1]
    /\ guards' = [guards EXCEPT ![t] = Append(@, shared_value.value)]
    /\ site' = [site EXCEPT ![t] = IF waited[t] = 6 THEN "for" ELSE "wait"]
    /\ UNCHANGED <<lockVars, arcVars, layoutVars, steps, step, waited, local_gen, barrier, adder>>

SimStep(t) ==
    \/ for_loop(t)
    \/ barrier_wait(t)
    \/ barrier_wake(t)
    \/ propagate(t)
    \/ send(t)
    \/ shared_value_read(t)
    \/ recieve_sum(t)
    \/ shared_value_write(t)

NextSimulate == \E t \in SimThreads : SimStep(t)

\* Every thread that can take a step eventually takes one.
SpecSimulate == InitSimulate /\ [][NextSimulate]_vars /\ \A t \in SimThreads : WF_vars(SimStep(t))

\* Every thread returned Ok(()) after `steps` iterations.
SimAllDone == \A t \in SimThreads : site[t] = "Ok" /\ step[t] = steps

\* simulate_output waits for the write lock of shared_value while every
\* worker holds the read guard of the previous quantity and waits at the
\* barrier for simulate_output.
SimStuck ==
    /\ site[Output] = "write" /\ shared_value.readers = SimWorkers
    /\ \A t \in SimThreads \ {Output} : site[t] = "parked" /\ Len(guards[t]) = 1

\* C38: when no operation returns an error, every thread makes its six
\* barrier waits in every step and returns after `steps` iterations; no thread
\* waits forever at the barrier or for shared_value.
C38_AllStepsComplete == <>SimAllDone

\* --------------------------------------------- InnerArc::from_lock (SpecLayout)

\* The largest size of a payload, in bytes.
MaxPayload == 24

\* The largest alignment of a payload is 2 ^ MaxAlignLog.
MaxAlignLog == 4

\* The number of addresses a block is placed at.
MaxBlocks == 2

\* A Layout is [size, align].  Layout::padding_needed_for rounds a size up to
\* a multiple of an alignment.
RoundUp(n, a) == ((n + a - 1) \div a) * a

\* Layout::extend: the record `l` followed by `next`, with the padding that
\* aligns `next`, and with NO trailing padding; the offset of `next`.
extend(l, next) ==
    LET offset == RoundUp(l.size, next.align)
    IN [layout |-> [size |-> offset + next.size,
                    align |-> IF l.align > next.align THEN l.align ELSE next.align],
        offset |-> offset]

\* Layout::pad_to_align: the size rounded up to the alignment.
pad_to_align(l) == [l EXCEPT !.size = RoundUp(l.size, l.align)]

\* Layout::new::<AtomicUsize>()
AtomicUsizeLayout == [size |-> USIZE_BITS \div 8, align |-> USIZE_BITS \div 8]

\* PoisonLock {lock: Lock(AtomicU32), poison: AtomicBool}
PoisonLockLayout == pad_to_align(extend([size |-> 4, align |-> 4], [size |-> 1, align |-> 1]).layout)

\* Layout::for_value_raw of an InnerRwLock<T> {lock: PoisonLock, data: T} whose
\* payload has layout p: the size of a value is a multiple of its alignment.
InnerRwLockLayout(p) == pad_to_align(extend(PoisonLockLayout, p).layout)

\* The #[repr(C)] block InnerArc<T> {counter: AtomicUsize, lock: InnerRwLock<T>}:
\* the fields in order, each at the next offset of its alignment, and the size
\* padded to the alignment of the block.
InnerArcLayout(p) == pad_to_align(extend(AtomicUsizeLayout, InnerRwLockLayout(p)).layout)

\* The offset of the field `lock` in the block.
LockOffset(p) == extend(AtomicUsizeLayout, InnerRwLockLayout(p)).offset

\* InnerArc::from_lock(lock): the header pointer and the layout, from the
\* pointer to the lock of a block whose payload has layout p.
from_lock(lock, p) ==
    LET res == extend(AtomicUsizeLayout, InnerRwLockLayout(p))
    IN <<lock - res.offset, res.layout>>

\* The layouts of the payloads: a power of two as alignment, a multiple of the
\* alignment as size.
Payloads ==
    {[size |-> s, align |-> 2 ^ k] : s \in 0 .. MaxPayload, k \in 0 .. MaxAlignLog}
    \cap {p \in [size : 0 .. MaxPayload, align : 1 .. 2 ^ MaxAlignLog] : p.size % p.align = 0}

\* A block InnerArc<T> has been allocated for a payload, at an address of its
\* alignment.
InitLayout ==
    /\ LockInit /\ leaked = [w |-> 0, r |-> 0] /\ ArcIdle
    /\ steps = 0 /\ site = <<>> /\ step = <<>> /\ waited = <<>> /\ local_gen = <<>>
    /\ barrier = [count |-> 0, generation_id |-> 0]
    /\ shared_value = [readers |-> 0, value |-> "default"]
    /\ guards = <<>> /\ adder = 0
    /\ payload \in Payloads
    /\ \E b \in 1 .. MaxBlocks :
          allocation = [ptr |-> b * InnerArcLayout(payload).align, layout |-> InnerArcLayout(payload)]
    /\ from_lock_ret = <<>>

\* A Drop of a handle calls from_lock with the pointer to the lock of the block.
from_lock_call ==
    /\ from_lock_ret = <<>>
    /\ from_lock_ret' = from_lock(allocation.ptr + LockOffset(payload), payload)
    /\ UNCHANGED <<lockVars, arcVars, simVars, payload, allocation>>

NextLayout == from_lock_call

SpecLayout == InitLayout /\ [][NextLayout]_vars

\* The pointer from_lock returns is the address of the header of the block.
FromLockHeaderAddress == from_lock_ret # <<>> => from_lock_ret[1] = allocation.ptr

\* The alignment of the layout from_lock returns is the alignment of the block.
FromLockAlignment == from_lock_ret # <<>> => from_lock_ret[2].align = allocation.layout.align

\* C39: for every payload size and alignment, from_lock returns the address of
\* the header of the block and the layout of the whole block as it was
\* allocated, trailing padding included.
C39_FromLockRecoversBlock ==
    from_lock_ret # <<>> => from_lock_ret = <<allocation.ptr, allocation.layout>>

====
